---- MODULE Spec2Model ----
(***************************************************************************)
(* A model of unplugin-inline-source: the attribute parser, the direct     *)
(* markup transform (transformHtml), the component-source transform        *)
(* (transformJsx) and the marker protocol of a build session.              *)
(*                                                                         *)
(* Text is modelled as TLA+ strings, character by character: the regular   *)
(* expressions of the source are translated into operators that scan the   *)
(* string the way the JavaScript regular expression engine does (leftmost  *)
(* match, greedy and lazy quantifiers, the i and g flags).                 *)
(***************************************************************************)
EXTENDS Integers, Sequences, FiniteSets, TLC

VARIABLES
    mode,       \* which function of the source this behaviour runs
    framework,  \* meta.framework: the bundler the plugin was constructed for
    isBuild,    \* createViteHtmlHandlers: let isBuild
    pc,         \* position inside that function
    attr,       \* options.attribute ?? 'inline'
    files,      \* the resolver's view: path -> content, or Null
    pieces,     \* the fragments the input document was written from
    html,       \* transformHtml: the input document
    result,     \* transformHtml / transformJsx: let result
    matches,    \* the matches of the running pass that are still to be handled
    warnings,   \* console.warn calls: the tag and the path of each
    calls,      \* resolveContent calls: the tag and the path of each; in a
                \* session of registerMarker calls, what each call returned
    code,       \* transformJsx: the input source
    imports,    \* transformJsx: const imports
    counter,    \* transformJsx: let counter
    acc,        \* String.prototype.replace: the text built so far
    pos,        \* String.prototype.replace: how much of the subject is consumed
    returned,   \* transformJsx: the returned value (Null or a string)
    inlineRegistry, \* the plugin's Map marker -> InlineEntry, in insertion order
    markerCounter,  \* the plugin's let markerCounter
    edges,      \* the bundler's module graph: which module imports which marker
    modules,    \* the bundler's loaded virtual modules: the id and source of each
    bundle,     \* the output bundle: artifacts in insertion order
    fileNames,  \* ctx.getFileName: refId -> file name, or Null where it throws
    cursor,     \* generateBundle: how many registry entries are handled
    contents,   \* generateBundle: the content obtained for each handled entry
    inlineScripts,  \* createViteHtmlHandlers: const inlineScripts
    inlineStyles,   \* createViteHtmlHandlers: const inlineStyles
    backend     \* the bundler's choices when it generated the output of this
                \* session, and what the session before this one was given
                \* and ended with

inputVars == <<mode, framework, isBuild, attr, files, pieces, backend>>
htmlVars == <<html, warnings, calls>>
jsxVars == <<code, imports, counter, acc, pos, returned>>
buildVars == <<inlineRegistry, markerCounter, edges, modules, bundle, fileNames,
               cursor, contents>>
viteVars == <<inlineScripts, inlineStyles>>

vars == <<mode, framework, isBuild, pc, attr, files, pieces, html, result, matches, warnings,
          calls, code, imports, counter, acc, pos, returned,
          inlineRegistry, markerCounter, edges, modules, bundle, fileNames,
          cursor, contents, inlineScripts, inlineStyles, backend>>

Null == "<null>"

\* no build session runs
BuildIdle ==
    /\ inlineRegistry = <<>>
    /\ markerCounter = 0
    /\ edges = <<>>
    /\ modules = {}
    /\ bundle = <<>>
    /\ fileNames = <<>>
    /\ cursor = 0
    /\ contents = <<>>
    /\ inlineScripts = {}
    /\ inlineStyles = {}
    /\ backend = [choice |-> <<>>, first |-> <<>>]

-----------------------------------------------------------------------------
(* Characters and strings                                                  *)

CharAt(s, i) == SubSeq(s, i, i)

\* the i flag: characters are compared after case folding
UpperChars == {CharAt("ABCDEFGHIJKLMNOPQRSTUVWXYZ", i) : i \in 1..26}

LowerChar(c) ==
    IF c \in UpperChars
    THEN CharAt("abcdefghijklmnopqrstuvwxyz",
                CHOOSE i \in 1..26 : CharAt("ABCDEFGHIJKLMNOPQRSTUVWXYZ", i) = c)
    ELSE c

\* \w of the regular expressions: [A-Za-z0-9_]
WordChars ==
    UpperChars \cup {CharAt("abcdefghijklmnopqrstuvwxyz", i) : i \in 1..26}
        \cup {CharAt("0123456789", i) : i \in 1..10} \cup {"_"}

IsWordChar(c) == c \in WordChars

\* \s of the regular expressions (the white space that occurs in the inputs)
IsSpace(c) == c \in {" ", "\t", "\n", "\r", "\f"}

\* [\w-] of parseAttributes
IsNameChar(c) == IsWordChar(c) \/ c = "-"

RECURSIVE LowerStr(_)
LowerStr(s) ==
    IF s = "" THEN "" ELSE LowerChar(CharAt(s, 1)) \o LowerStr(SubSeq(s, 2, Len(s)))

\* the literal lit stands in s at index i
StartsAt(s, i, lit) ==
    /\ i >= 1
    /\ i + Len(lit) - 1 <= Len(s)
    /\ SubSeq(s, i, i + Len(lit) - 1) = lit

\* \b at the position before index i of s
WordBoundary(s, i) ==
    LET before == i - 1 >= 1 /\ i - 1 <= Len(s) /\ IsWordChar(CharAt(s, i - 1))
        after == i >= 1 /\ i <= Len(s) /\ IsWordChar(CharAt(s, i))
    IN before # after

\* the first index in lo..hi at which lit stands in s; 0 when there is none
RECURSIVE FindIn(_, _, _, _)
FindIn(s, lit, lo, hi) ==
    IF lo > hi THEN 0
    ELSE IF lo = hi
    THEN (IF SubSeq(s, lo, lo + Len(lit) - 1) = lit THEN lo ELSE 0)
    ELSE LET mid == (lo + hi) \div 2
             l == FindIn(s, lit, lo, mid)
         IN IF l # 0 THEN l ELSE FindIn(s, lit, mid + 1, hi)

\* index of the first occurrence of lit in s at or after from; 0 when there is none
IndexOf(s, lit, from) == FindIn(s, lit, from, Len(s) - Len(lit) + 1)

\* the same as FindIn under the i flag (lit is written in lower case)
RECURSIVE FindInCI(_, _, _, _)
FindInCI(s, lit, lo, hi) ==
    IF lo > hi THEN 0
    ELSE IF lo = hi
    THEN (IF /\ LowerChar(CharAt(s, lo)) = CharAt(lit, 1)
             /\ LowerStr(SubSeq(s, lo, lo + Len(lit) - 1)) = lit
          THEN lo ELSE 0)
    ELSE LET mid == (lo + hi) \div 2
             l == FindInCI(s, lit, lo, mid)
         IN IF l # 0 THEN l ELSE FindInCI(s, lit, mid + 1, hi)

IndexOfCI(s, lit, from) == FindInCI(s, lit, from, Len(s) - Len(lit) + 1)

\* String.prototype.includes
Includes(s, lit) == IndexOf(s, lit, 1) # 0

\* String.prototype.slice(from0, to0) with 0-based, non-negative arguments: an
\* end beyond the string is the end of the string
Slice(s, from0, to0) == SubSeq(s, from0 + 1, IF to0 > Len(s) THEN Len(s) ELSE to0)

-----------------------------------------------------------------------------
(* core: parseAttributes, formatAttributes, collectMatches                 *)

\* A Record<string, string> whose keys are attribute names: the sequence of its
\* entries in the order Object.entries yields them (insertion order; the names
\* of the inputs are not integer-like, so no key is moved to the front).
AttrHas(attrs, key) == \E i \in 1..Len(attrs) : attrs[i].key = key

AttrGet(attrs, key) ==
    attrs[CHOOSE i \in 1..Len(attrs) : attrs[i].key = key].value

\* attrs[key] = value on an object literal: a present key keeps its place and
\* takes the new value; the key __proto__ reaches the setter inherited from
\* Object.prototype, which ignores a string and adds no property
AttrSet(attrs, key, value) ==
    IF key = "__proto__" THEN attrs
    ELSE IF AttrHas(attrs, key)
    THEN [i \in 1..Len(attrs) |->
            IF attrs[i].key = key THEN [key |-> key, value |-> value] ELSE attrs[i]]
    ELSE Append(attrs, [key |-> key, value |-> value])

\* the index after the longest run, starting at i, of characters of one class of
\* the regular expression: "name" is [\w-], "space" is \s, "nonspace" is \S
RECURSIVE SkipRun(_, _, _)
SkipRun(s, i, class) ==
    IF /\ i <= Len(s)
       /\ CASE class = "name" -> IsNameChar(CharAt(s, i))
            [] class = "space" -> IsSpace(CharAt(s, i))
            [] class = "nonspace" -> ~IsSpace(CharAt(s, i))
    THEN SkipRun(s, i + 1, class)
    ELSE i

RECURSIVE FirstNameChar(_, _)
FirstNameChar(s, i) ==
    IF i > Len(s) THEN 0
    ELSE IF IsNameChar(CharAt(s, i)) THEN i ELSE FirstNameChar(s, i + 1)

\* One re.exec of /([\w-]+)(?:\s*=\s*(?:"([^"]*)"|'([^']*)'|(\S+)))?/g from
\* lastIndex: [found, name, value, lastIndex], value being m[2] ?? m[3] ?? m[4] ?? ''.
AttrExec(s, lastIndex) ==
    LET n == FirstNameChar(s, lastIndex)
        e == SkipRun(s, n, "name")          \* one past the name
        eq == SkipRun(s, e, "space")        \* where "=" must stand
        v == SkipRun(s, eq + 1, "space")    \* where the value must start
        dq == IndexOf(s, "\"", v + 1)       \* the closing double quote
        sq == IndexOf(s, "'", v + 1)        \* the closing single quote
        name == SubSeq(s, n, e - 1)
        bare == [found |-> TRUE, name |-> name, value |-> "", lastIndex |-> e]
    IN IF n = 0 THEN [found |-> FALSE, name |-> "", value |-> "", lastIndex |-> lastIndex]
       ELSE IF ~(eq <= Len(s) /\ CharAt(s, eq) = "=") THEN bare
       ELSE IF v > Len(s) THEN bare
       ELSE IF CharAt(s, v) = "\"" /\ dq # 0
            THEN [found |-> TRUE, name |-> name,
                  value |-> SubSeq(s, v + 1, dq - 1), lastIndex |-> dq + 1]
       ELSE IF CharAt(s, v) = "'" /\ sq # 0
            THEN [found |-> TRUE, name |-> name,
                  value |-> SubSeq(s, v + 1, sq - 1), lastIndex |-> sq + 1]
       ELSE [found |-> TRUE, name |-> name,
             value |-> SubSeq(s, v, SkipRun(s, v, "nonspace") - 1),
             lastIndex |-> SkipRun(s, v, "nonspace")]

RECURSIVE ParseLoop(_, _, _)
ParseLoop(s, lastIndex, attrs) ==
    LET m == AttrExec(s, lastIndex)
    IN IF ~m.found THEN attrs
       ELSE ParseLoop(s, m.lastIndex, AttrSet(attrs, m.name, m.value))

parseAttributes(attrString) == ParseLoop(attrString, 1, <<>>)

RECURSIVE JoinWith(_, _)
JoinWith(parts, sep) ==
    IF parts = <<>> THEN ""
    ELSE IF Len(parts) = 1 THEN parts[1]
    ELSE parts[1] \o sep \o JoinWith(Tail(parts), sep)

RECURSIVE FormatParts(_, _)
FormatParts(attrs, exclude) ==
    IF attrs = <<>> THEN <<>>
    ELSE LET a == Head(attrs)
             rest == FormatParts(Tail(attrs), exclude)
         IN IF a.key \in exclude THEN rest
            ELSE IF a.value = "" THEN <<a.key>> \o rest
            ELSE <<a.key \o "=\"" \o a.value \o "\"">> \o rest

\* a variant of formatAttributes that filters nothing out
formatAttributesAll(attrs, exclude) ==
    LET parts == FormatParts(attrs, {})
    IN IF Len(parts) > 0 THEN " " \o JoinWith(parts, " ") ELSE ""

\* Object.entries(attrs).filter(([key]) => !exclude.includes(key)).map(...).join(' ')
formatAttributes(attrs, exclude) ==
    LET parts == FormatParts(attrs, exclude)
    IN IF Len(parts) > 0 THEN " " \o JoinWith(parts, " ") ELSE ""


NoMatch == [found |-> FALSE]

\* One exec of /<script\b([^>]*)>([\s\S]*?)<\/script>/gi from lastIndex: the
\* leftmost "<script" followed by a word boundary, the attributes up to the first
\* ">" and the body up to the first "</script>" after it. index is 0-based.
RECURSIVE ScriptReExec(_, _)
ScriptReExec(s, lastIndex) ==
    LET p == IndexOfCI(s, "<script", lastIndex)
        q == IF p = 0 THEN 0 ELSE IndexOf(s, ">", p + 7)
        e == IF q = 0 THEN 0 ELSE IndexOfCI(s, "</script>", q + 1)
    IN IF p = 0 THEN NoMatch
       ELSE IF WordBoundary(s, p + 7) /\ q # 0 /\ e # 0
       THEN [found |-> TRUE, index |-> p - 1,
             m0 |-> SubSeq(s, p, e + 8),
             m1 |-> SubSeq(s, p + 7, q - 1),
             m2 |-> SubSeq(s, q + 1, e - 1),
             lastIndex |-> e + 9]
       ELSE ScriptReExec(s, p + 1)

\* s without its trailing white space
RECURSIVE TrimEnd(_)
TrimEnd(s) ==
    IF s # "" /\ IsSpace(CharAt(s, Len(s))) THEN TrimEnd(SubSeq(s, 1, Len(s) - 1)) ELSE s

\* s without one trailing "/"
DropSlash(s) ==
    IF s # "" /\ CharAt(s, Len(s)) = "/" THEN SubSeq(s, 1, Len(s) - 1) ELSE s

\* One exec of /<link\b([^>]*?)\/?\s*>/gi from lastIndex: the lazy group is the
\* shortest prefix of the text before the first ">" that leaves only an optional
\* "/" and white space.
RECURSIVE LinkReExec(_, _)
LinkReExec(s, lastIndex) ==
    LET p == IndexOfCI(s, "<link", lastIndex)
        q == IF p = 0 THEN 0 ELSE IndexOf(s, ">", p + 5)
    IN IF p = 0 THEN NoMatch
       ELSE IF WordBoundary(s, p + 5) /\ q # 0
       THEN [found |-> TRUE, index |-> p - 1,
             m0 |-> SubSeq(s, p, q),
             m1 |-> DropSlash(TrimEnd(SubSeq(s, p + 5, q - 1))),
             m2 |-> "",
             lastIndex |-> q + 1]
       ELSE LinkReExec(s, p + 1)

\* regex.exec(html) for the two regular expressions transformHtml passes to
\* collectMatches, named "script" and "link" here
RegexExec(regex, s, lastIndex) ==
    IF regex = "script" THEN ScriptReExec(s, lastIndex) ELSE LinkReExec(s, lastIndex)

RECURSIVE CollectFrom(_, _, _)
CollectFrom(s, regex, lastIndex) ==
    LET m == RegexExec(regex, s, lastIndex)
    IN IF ~m.found THEN <<>>
       ELSE <<m>> \o CollectFrom(s, regex, m.lastIndex)

collectMatches(s, regex) == CollectFrom(s, regex, 1)

\* the matches in document order, first match first
Forward(seq) == seq

\* Array.prototype.reverse
Reverse(seq) == [i \in 1..Len(seq) |-> seq[Len(seq) + 1 - i]]


-----------------------------------------------------------------------------
(* Inputs: documents written from fragments, resolvers, options            *)

MaxTags == 2        \* fragments per document

A(k, v) == [key |-> k, value |-> v, q |-> "\""]     \* name="value"
B(k) == [key |-> k, value |-> "", q |-> ""]         \* name

Tag(kind, attrs, form, body) ==
    [kind |-> kind, attrs |-> attrs, form |-> form, body |-> body]

JsPath == "a.js"
CssPath == "a.css"

\* the markup fragments of the documents given to transformHtml
ScriptMarked == Tag("script", <<B("inline"), A("src", JsPath)>>, "paired", "")
ScriptMarkedAttrs ==
    Tag("script", <<A("type", "module"), B("inline"),
                    [A("src", JsPath) EXCEPT !.q = "'"], B("defer")>>,     \* src='a.js'
        "paired", "")
ScriptPlain == Tag("script", <<A("src", JsPath)>>, "paired", "")
ScriptNoSrc == Tag("script", <<B("inline")>>, "paired", "x()")
ScriptCustom == Tag("script", <<B("data-inline"), A("src", JsPath)>>, "paired", "")
LinkMarked ==
    Tag("link", <<B("inline"), A("rel", "stylesheet"), A("href", CssPath)>>, "selfclose", "")
LinkMarkedAttrs ==
    Tag("link", <<B("inline"), A("rel", "stylesheet"), A("href", CssPath),
                  A("media", "print")>>, "void", "")
LinkPlain == Tag("link", <<A("rel", "stylesheet"), A("href", CssPath)>>, "selfclose", "")
LinkIcon == Tag("link", <<B("inline"), A("rel", "icon"), A("href", CssPath)>>, "selfclose", "")
LinkNoHref == Tag("link", <<B("inline"), A("rel", "stylesheet")>>, "void", "")
LinkCustom ==
    Tag("link", <<B("data-inline"), A("rel", "stylesheet"), A("href", CssPath)>>,
        "selfclose", "")
Para == Tag("text", <<>>, "text", "<p>hi</p>")

\* documents transformed under the default trigger attribute
HtmlPalette ==
    {ScriptMarked, ScriptMarkedAttrs, ScriptPlain, ScriptNoSrc,
     LinkMarked, LinkMarkedAttrs, LinkPlain, LinkIcon, LinkNoHref, Para}

\* documents transformed under a custom trigger attribute
CustomPalette == {ScriptMarked, ScriptCustom, LinkMarked, LinkCustom}

DefaultAttr == "inline"
CustomAttr == "data-inline"

RECURSIVE RenderAttrs(_)
RenderAttrs(attrs) ==
    IF attrs = <<>> THEN ""
    ELSE LET a == Head(attrs)
         IN " " \o a.key
            \o (IF a.q = "" /\ a.value = "" THEN "" ELSE "=" \o a.q \o a.value \o a.q)
            \o RenderAttrs(Tail(attrs))

\* the text of a fragment
Render(t) ==
    IF t.kind = "text" THEN t.body
    ELSE "<" \o t.kind \o RenderAttrs(t.attrs)
         \o (IF t.form = "paired" THEN ">" \o t.body \o "</" \o t.kind \o ">"
             ELSE IF t.form = "selfclose" THEN " />"
             ELSE ">")

RECURSIVE RenderAll(_)
RenderAll(ts) == IF ts = <<>> THEN "" ELSE Render(Head(ts)) \o RenderAll(Tail(ts))

\* documents: up to MaxTags fragments of a palette
Documents(palette) == UNION {[1..n -> palette] : n \in 0..MaxTags}

\* what the files resolve to
JsPlain == "var x=1"
JsClosing == "a=\"</script>\";b=\"</SCRIPT>\""
JsWithLink == "w('<link inline rel=\"stylesheet\" href=\"a.css\">')"
CssPlain == ".a{}"
CssClosing == "b:after{content:\"</script>\"}"

Resolvers ==
    {[p \in {JsPath, CssPath} |-> IF p = JsPath THEN js ELSE css] :
        js \in {Null, JsPlain, JsClosing, JsWithLink},
        css \in {Null, CssPlain, CssClosing}}

\* the ResolveContent of the tests: files[path] ?? null
resolveContent(path) == IF path \in DOMAIN files THEN files[path] ELSE Null

-----------------------------------------------------------------------------
(* core: transformHtml                                                     *)

InitHtml ==
    /\ mode = "html"
    /\ framework = Null
    /\ isBuild = FALSE
    /\ \/ attr = DefaultAttr /\ pieces \in Documents(HtmlPalette)
       \/ attr = CustomAttr /\ pieces \in Documents(CustomPalette)
    /\ files \in Resolvers
    /\ html = RenderAll(pieces)
    /\ result = html
    /\ pc = "start"
    /\ matches = <<>>
    /\ warnings = <<>>
    /\ calls = <<>>
    /\ code = ""
    /\ imports = <<>>
    /\ counter = 0
    /\ acc = ""
    /\ pos = 0
    /\ returned = Null
    /\ BuildIdle

\* a variant of ScriptSkipped that looks at src alone
ScriptSkippedSrcOnly(attrs) == ~AttrHas(attrs, "src")

\* !(attr in attrs) || !('src' in attrs)
ScriptSkipped(attrs) == ~AttrHas(attrs, attr) \/ ~AttrHas(attrs, "src")

\* a variant of LinkSkipped with the default attribute name written in
LinkSkippedDefault(attrs) ==
    \/ ~AttrHas(attrs, "inline")
    \/ ~AttrHas(attrs, "rel")
    \/ AttrGet(attrs, "rel") # "stylesheet"
    \/ ~AttrHas(attrs, "href")

\* !(attr in attrs) || attrs.rel !== 'stylesheet' || !('href' in attrs)
LinkSkipped(attrs) ==
    \/ ~AttrHas(attrs, attr)
    \/ ~AttrHas(attrs, "rel")
    \/ AttrGet(attrs, "rel") # "stylesheet"
    \/ ~AttrHas(attrs, "href")

\* a variant of EscapeScript without the g flag: the first occurrence only
EscapeScriptFirst(content) ==
    LET i == IndexOfCI(content, "</script>", 1)
    IN IF i = 0 THEN content
       ELSE SubSeq(content, 1, i - 1) \o "<\\/script>"
            \o SubSeq(content, i + 9, Len(content))

\* content.replace(/<\/script>/gi, '<\\/script>')
RECURSIVE EscapeScript(_)
EscapeScript(content) ==
    LET i == IndexOfCI(content, "</script>", 1)
    IN IF i = 0 THEN content
       ELSE SubSeq(content, 1, i - 1) \o "<\\/script>"
            \o EscapeScript(SubSeq(content, i + 9, Len(content)))

\* a variant of Warn that drops the message
WarnDropped(ws, w) == ws

\* console.warn(`[unplugin-inline-source] Could not resolve: ${path}`)
Warn(ws, w) == Append(ws, w)

\* result.slice(0, match.index) + replacement + result.slice(match.index + match[0].length)
Splice(text, match, replacement) ==
    Slice(text, 0, match.index) \o replacement
    \o Slice(text, match.index + Len(match.m0), Len(text))

\* `<script${attrStr}>${escaped}</script>`
ScriptReplacement(attrs, content) ==
    "<script" \o formatAttributes(attrs, {attr, "src"}) \o ">"
    \o EscapeScript(content) \o "</script>"

\* `<style${attrStr}>${content}</style>`
LinkReplacement(attrs, content) ==
    "<style" \o formatAttributes(attrs, {attr, "rel", "href"}) \o ">"
    \o content \o "</style>"

HtmlCollectScripts ==
    /\ mode = "html" /\ pc = "start"
    /\ matches' = Reverse(collectMatches(result, "script"))
    /\ pc' = "scripts"
    /\ UNCHANGED <<viteVars, buildVars, inputVars, htmlVars, jsxVars, result>>

\* one iteration of the loop over scriptMatches.reverse()
HtmlScriptStep ==
    /\ mode = "html" /\ pc = "scripts" /\ matches # <<>>
    /\ LET Iteration(match, attrs) ==
               LET call == [tag |-> match.m0, path |-> AttrGet(attrs, "src")]
                   Resolved(content) ==
                       IF content = Null
                       THEN /\ calls' = Append(calls, call)
                            /\ warnings' = Warn(warnings, call)
                            /\ UNCHANGED result
                       ELSE /\ calls' = Append(calls, call)
                            /\ result' = Splice(result, match, ScriptReplacement(attrs, content))
                            /\ UNCHANGED warnings
               IN IF ScriptSkipped(attrs)
                  THEN UNCHANGED <<result, warnings, calls>>
                  ELSE Resolved(resolveContent(AttrGet(attrs, "src")))
       IN Iteration(Head(matches), parseAttributes(Head(matches).m1))
    /\ matches' = Tail(matches)
    /\ UNCHANGED <<viteVars, buildVars, inputVars, jsxVars, pc, html>>

HtmlCollectLinks ==
    /\ mode = "html" /\ pc = "scripts" /\ matches = <<>>
    /\ matches' = Reverse(collectMatches(result, "link"))
    /\ pc' = "links"
    /\ UNCHANGED <<viteVars, buildVars, inputVars, htmlVars, jsxVars, result>>

\* one iteration of the loop over linkMatches.reverse()
HtmlLinkStep ==
    /\ mode = "html" /\ pc = "links" /\ matches # <<>>
    /\ LET Iteration(match, attrs) ==
               LET call == [tag |-> match.m0, path |-> AttrGet(attrs, "href")]
                   Resolved(content) ==
                       IF content = Null
                       THEN /\ calls' = Append(calls, call)
                            /\ warnings' = Warn(warnings, call)
                            /\ UNCHANGED result
                       ELSE /\ calls' = Append(calls, call)
                            /\ result' = Splice(result, match, LinkReplacement(attrs, content))
                            /\ UNCHANGED warnings
               IN IF LinkSkipped(attrs)
                  THEN UNCHANGED <<result, warnings, calls>>
                  ELSE Resolved(resolveContent(AttrGet(attrs, "href")))
       IN Iteration(Head(matches), parseAttributes(Head(matches).m1))
    /\ matches' = Tail(matches)
    /\ UNCHANGED <<viteVars, buildVars, inputVars, jsxVars, pc, html>>

\* return result
HtmlReturn ==
    /\ mode = "html" /\ pc = "links" /\ matches = <<>>
    /\ pc' = "done"
    /\ UNCHANGED <<viteVars, buildVars, inputVars, htmlVars, jsxVars, result, matches>>

NextHtml ==
    \/ HtmlCollectScripts
    \/ HtmlScriptStep
    \/ HtmlCollectLinks
    \/ HtmlLinkStep
    \/ HtmlReturn

SpecHtml == InitHtml /\ [][NextHtml]_vars


-----------------------------------------------------------------------------
(* core: transformJsx                                                      *)

\* passed to transformJsx as queries.raw and queries.inline
INLINE_QUERY == "?__inline_build"

\* the component-source fragments given to transformJsx
JsxScriptSelf == Tag("script", <<B("inline"), A("src", "b.js")>>, "selfclose", "")
Div == Tag("text", <<>>, "text", "<div>Hello</div>")

JsxPalette ==
    {ScriptMarked, ScriptMarkedAttrs, JsxScriptSelf, ScriptPlain, ScriptNoSrc,
     LinkMarked, LinkMarkedAttrs, LinkPlain, LinkIcon, LinkNoHref, Div}

\* the indices in from..to at which \b<attr>\b matches under the i flag, la
\* being the attribute name in lower case
RECURSIVE AttrWordFrom(_, _, _, _)
AttrWordFrom(s, la, from, to) ==
    LET i == IndexOfCI(s, la, from)
    IN IF i = 0 \/ i + Len(la) - 1 > to THEN {}
       ELSE (IF WordBoundary(s, i) /\ WordBoundary(s, i + Len(la)) THEN {i} ELSE {})
            \cup AttrWordFrom(s, la, i + 1, to)

\* /<(?:script|link)\b[^>]*\b<attr>\b/i.test(code)
RECURSIVE PreCheckFrom(_, _, _)
PreCheckFrom(s, a, from) ==
    LET ps == IndexOfCI(s, "<script", from)
        pl == IndexOfCI(s, "<link", from)
        p == IF ps = 0 THEN pl ELSE IF pl = 0 THEN ps ELSE IF ps < pl THEN ps ELSE pl
        n == IF p = ps THEN 7 ELSE 5
        gt == IndexOf(s, ">", p + n)
        q == IF gt = 0 THEN Len(s) + 1 ELSE gt
    IN IF p = 0 THEN FALSE
       ELSE IF WordBoundary(s, p + n) /\ AttrWordFrom(s, LowerStr(a), p + n, q - 1) # {} THEN TRUE
       ELSE PreCheckFrom(s, a, p + 1)

\* One exec of
\*   /<script\b([^>]*)\b<attr>\b([^>]*)(?:\/>|>([\s\S]*?)<\/script>)/gi
\* from lastIndex. Both groups stay before the first ">"; the greedy first group
\* ends at the last occurrence of the attribute. With a "</script>" after the
\* ">" the element is the paired one, up to the first such "</script>";
\* otherwise the tag must end in "/>". before and after are the two groups.
RECURSIVE JsxScriptReExec(_, _, _)
JsxScriptReExec(s, a, lastIndex) ==
    LET p == IndexOfCI(s, "<script", lastIndex)
        q == IF p = 0 THEN 0 ELSE IndexOf(s, ">", p + 7)
        e == IF q = 0 THEN 0 ELSE IndexOfCI(s, "</script>", q + 1)
        occ == IF q = 0 THEN {} ELSE AttrWordFrom(s, LowerStr(a), p + 7, q - 1)
        Last(S) == CHOOSE x \in S : \A y \in S : y <= x
        at == Last(occ)
        selfClosed == e = 0 /\ CharAt(s, q - 1) = "/" /\ at + Len(a) <= q - 1
    IN IF p = 0 THEN NoMatch
       ELSE IF WordBoundary(s, p + 7) /\ occ # {} /\ e # 0
       THEN [found |-> TRUE, index |-> p - 1,
             m0 |-> SubSeq(s, p, e + 8),
             before |-> SubSeq(s, p + 7, at - 1),
             after |-> SubSeq(s, at + Len(a), q - 1),
             lastIndex |-> e + 9]
       ELSE IF WordBoundary(s, p + 7) /\ occ # {} /\ selfClosed
       THEN [found |-> TRUE, index |-> p - 1,
             m0 |-> SubSeq(s, p, q),
             before |-> SubSeq(s, p + 7, at - 1),
             after |-> SubSeq(s, at + Len(a), q - 2),
             lastIndex |-> q + 1]
       ELSE JsxScriptReExec(s, a, p + 1)

\* One exec of /<link\b([^>]*)\b<attr>\b([^>]*?)\/?>/gi from lastIndex: the lazy
\* second group stops before an optional "/" that precedes the first ">".
RECURSIVE JsxLinkReExec(_, _, _)
JsxLinkReExec(s, a, lastIndex) ==
    LET p == IndexOfCI(s, "<link", lastIndex)
        q == IF p = 0 THEN 0 ELSE IndexOf(s, ">", p + 5)
        occ == IF q = 0 THEN {} ELSE AttrWordFrom(s, LowerStr(a), p + 5, q - 1)
        Last(S) == CHOOSE x \in S : \A y \in S : y <= x
        at == Last(occ)
    IN IF p = 0 THEN NoMatch
       ELSE IF WordBoundary(s, p + 5) /\ occ # {}
       THEN [found |-> TRUE, index |-> p - 1,
             m0 |-> SubSeq(s, p, q),
             before |-> SubSeq(s, p + 5, at - 1),
             after |-> DropSlash(SubSeq(s, at + Len(a), q - 1)),
             lastIndex |-> q + 1]
       ELSE JsxLinkReExec(s, a, p + 1)

InitJsx ==
    /\ mode = "jsx"
    /\ framework = Null
    /\ isBuild = FALSE
    /\ \/ attr = DefaultAttr /\ pieces \in Documents(JsxPalette)
       \/ attr = CustomAttr /\ pieces \in Documents(CustomPalette)
    /\ code = RenderAll(pieces)
    /\ result = code
    /\ pc = "start"
    /\ imports = <<>>
    /\ counter = 0
    /\ acc = ""
    /\ pos = 0
    /\ returned = Null
    /\ BuildIdle
    /\ files = <<>>
    /\ html = ""
    /\ matches = <<>>
    /\ warnings = <<>>
    /\ calls = <<>>

\* the cheap pre-check fails: return null
JsxPreCheckFails ==
    /\ mode = "jsx" /\ pc = "start"
    /\ ~PreCheckFrom(code, attr, 1)
    /\ pc' = "done"
    /\ returned' = Null
    /\ UNCHANGED <<viteVars, buildVars, inputVars, htmlVars, result, matches, code, imports, counter, acc, pos>>

\* the pre-check passes: result.replace(scriptRe, ...) starts
JsxStartScripts ==
    /\ mode = "jsx" /\ pc = "start"
    /\ PreCheckFrom(code, attr, 1)
    /\ pc' = "scripts"
    /\ acc' = ""
    /\ pos' = 0
    /\ UNCHANGED <<viteVars, buildVars, inputVars, htmlVars, result, matches, code, imports, counter, returned>>

\* a variant of VarName that increments before use: `__inline_${++counter}`
VarNamePreIncrement(n) == "__inline_" \o ToString(n + 1)

\* `__inline_${counter++}`
VarName(n) == "__inline_" \o ToString(n)

\* one match of scriptRe and the call of the replacer for it
JsxScriptStep ==
    /\ mode = "jsx" /\ pc = "scripts"
    /\ LET Replacer(m, attrs) ==
               LET varName == VarName(counter)
                   skipped == ~AttrHas(attrs, attr) \/ ~AttrHas(attrs, "src")
                   replacement ==
                       IF skipped THEN m.m0
                       ELSE "<script" \o formatAttributes(attrs, {attr, "src"})
                            \o " dangerouslySetInnerHTML={{__html: " \o varName
                            \o "}}></script>"
               IN /\ acc' = acc \o Slice(result, pos, m.index) \o replacement
                  /\ pos' = m.index + Len(m.m0)
                  /\ IF skipped THEN UNCHANGED <<imports, counter>>
                     ELSE /\ counter' = counter + 1
                          /\ imports' = Append(imports,
                                "import " \o varName \o " from '" \o AttrGet(attrs, "src")
                                \o INLINE_QUERY \o "'")
           Match(m) ==
               /\ m.found
               /\ Replacer(m, parseAttributes(m.before \o attr \o m.after))
       IN Match(JsxScriptReExec(result, attr, pos + 1))
    /\ UNCHANGED <<viteVars, buildVars, inputVars, htmlVars, pc, result, matches, code, returned>>

\* scriptRe matches no more: result takes the replaced text, and
\* result.replace(linkRe, ...) starts
JsxStartLinks ==
    /\ mode = "jsx" /\ pc = "scripts"
    /\ ~JsxScriptReExec(result, attr, pos + 1).found
    /\ result' = acc \o Slice(result, pos, Len(result))
    /\ pc' = "links"
    /\ acc' = ""
    /\ pos' = 0
    /\ UNCHANGED <<viteVars, buildVars, inputVars, htmlVars, matches, code, imports, counter, returned>>

\* one match of linkRe and the call of the replacer for it
JsxLinkStep ==
    /\ mode = "jsx" /\ pc = "links"
    /\ LET Replacer(m, attrs) ==
               LET varName == VarName(counter)
                   skipped ==
                       \/ ~AttrHas(attrs, attr)
                       \/ ~AttrHas(attrs, "rel")
                       \/ AttrGet(attrs, "rel") # "stylesheet"
                       \/ ~AttrHas(attrs, "href")
                   replacement ==
                       IF skipped THEN m.m0
                       ELSE "<style" \o formatAttributes(attrs, {attr, "rel", "href"})
                            \o " dangerouslySetInnerHTML={{__html: " \o varName \o "}} />"
               IN /\ acc' = acc \o Slice(result, pos, m.index) \o replacement
                  /\ pos' = m.index + Len(m.m0)
                  /\ IF skipped THEN UNCHANGED <<imports, counter>>
                     ELSE /\ counter' = counter + 1
                          /\ imports' = Append(imports,
                                "import " \o varName \o " from '" \o AttrGet(attrs, "href")
                                \o INLINE_QUERY \o "'")
           Match(m) ==
               /\ m.found
               /\ Replacer(m, parseAttributes(m.before \o attr \o m.after))
       IN Match(JsxLinkReExec(result, attr, pos + 1))
    /\ UNCHANGED <<viteVars, buildVars, inputVars, htmlVars, pc, result, matches, code, returned>>

\* linkRe matches no more: return null, or the imports and the rewritten source
JsxReturn ==
    /\ mode = "jsx" /\ pc = "links"
    /\ ~JsxLinkReExec(result, attr, pos + 1).found
    /\ result' = acc \o Slice(result, pos, Len(result))
    /\ returned' = IF Len(imports) = 0 THEN Null
                   ELSE JoinWith(imports, "\n") \o "\n" \o result'
    /\ pc' = "done"
    /\ acc' = ""
    /\ pos' = 0
    /\ UNCHANGED <<viteVars, buildVars, inputVars, htmlVars, matches, code, imports, counter>>

NextJsx ==
    \/ JsxPreCheckFails
    \/ JsxStartScripts
    \/ JsxScriptStep
    \/ JsxStartLinks
    \/ JsxLinkStep
    \/ JsxReturn

SpecJsx == InitJsx /\ [][NextJsx]_vars

\* the two transforms of core, each on its own inputs
InitCore == InitHtml \/ InitJsx

NextCore == NextHtml \/ NextJsx

SpecCore == InitCore /\ [][NextCore]_vars

-----------------------------------------------------------------------------
(* What the documents are, read from the fragments they were written from  *)
(* The definitions of this section are the vocabulary of the properties:   *)
(* they say what a returned document is expected to hold, fragment by      *)
(* fragment. The expected text (Kept, Neutralized, AfterLinkPass, Out) is  *)
(* written without the operators translated from transformHtml.            *)

PHas(t, k) == \E i \in 1..Len(t.attrs) : t.attrs[i].key = k

PVal(t, k) == t.attrs[CHOOSE i \in 1..Len(t.attrs) : t.attrs[i].key = k].value

\* the match condition of the spec, on a fragment under trigger attribute a
Marked(t, a) ==
    \/ t.kind = "script" /\ PHas(t, a) /\ PHas(t, "src")
    \/ t.kind = "link" /\ PHas(t, a) /\ PHas(t, "href")
       /\ PHas(t, "rel") /\ PVal(t, "rel") = "stylesheet"

\* the reference of a marked fragment
Ref(t) == IF t.kind = "script" THEN PVal(t, "src") ELSE PVal(t, "href")

Resolvable(t) == Marked(t, attr) /\ files[Ref(t)] # Null

Unresolvable(t) == Marked(t, attr) /\ files[Ref(t)] = Null

\* the attributes of a fragment outside drop, each as name or name="value"
RECURSIVE Kept(_, _)
Kept(as, drop) ==
    IF as = <<>> THEN ""
    ELSE LET a == Head(as)
         IN (IF a.key \in drop THEN ""
             ELSE IF a.value = "" THEN " " \o a.key
             ELSE " " \o a.key \o "=\"" \o a.value \o "\"")
            \o Kept(Tail(as), drop)

\* the resolved contents with every closing-script sequence written <\/script>
Neutralized(content) ==
    IF content = JsClosing THEN "a=\"<\\/script>\";b=\"<\\/script>\"" ELSE content

\* a script body once the stylesheet-link pass has run over the document: the
\* link tag that JsWithLink carries is a marked tag under the default attribute
AfterLinkPass(body) ==
    IF body = JsWithLink /\ attr = DefaultAttr /\ files[CssPath] # Null
    THEN "w('<style>" \o files[CssPath] \o "</style>')"
    ELSE body

ScriptOpen(t) == "<script" \o Kept(t.attrs, {attr, "src"}) \o ">"

StyleOpen(t) == "<style" \o Kept(t.attrs, {attr, "rel", "href"}) \o ">"

\* what the returned document holds in the place of a fragment
Out(t) ==
    IF ~Resolvable(t) THEN Render(t)
    ELSE IF t.kind = "script"
    THEN ScriptOpen(t) \o AfterLinkPass(Neutralized(files[Ref(t)])) \o "</script>"
    ELSE StyleOpen(t) \o files[Ref(t)] \o "</style>"

RECURSIVE OutAll(_)
OutAll(ts) == IF ts = <<>> THEN "" ELSE Out(Head(ts)) \o OutAll(Tail(ts))

\* the part of the returned document that stands in the place of fragment k
Seg(k) ==
    SubSeq(result,
           Len(OutAll(SubSeq(pieces, 1, k - 1))) + 1,
           Len(result) - Len(OutAll(SubSeq(pieces, k + 1, Len(pieces)))))

HtmlDone == mode = "html" /\ pc = "done"

\* the body of the script element that stands in the place of fragment k
BodyOf(k) ==
    SubSeq(Seg(k), Len(ScriptOpen(pieces[k])) + 1, Len(Seg(k)) - Len("</script>"))

IsScriptElement(text, t) ==
    /\ StartsAt(text, 1, ScriptOpen(t))
    /\ StartsAt(text, Len(text) - Len("</script>") + 1, "</script>")

\* the opening tag of the element that stands in the place of fragment k
OpenTagOf(k) == SubSeq(Seg(k), 1, IndexOf(Seg(k), ">", 1))

\* the attributes that opening tag carries, as the tool itself reads them
OpenAttrsOf(k, name) == parseAttributes(Slice(OpenTagOf(k), Len(name) + 1, Len(OpenTagOf(k)) - 1))

\* the attribute names of a fragment outside drop, in order
KeptKeys(t, drop) ==
    LET idx == {i \in 1..Len(t.attrs) : t.attrs[i].key \notin drop}
        RECURSIVE Walk(_)
        Walk(i) == IF i > Len(t.attrs) THEN <<>>
                   ELSE (IF i \in idx THEN <<t.attrs[i].key>> ELSE <<>>) \o Walk(i + 1)
    IN Walk(1)

KeysOf(attrs) == [i \in 1..Len(attrs) |-> attrs[i].key]

\* how many entries of a sequence satisfy equality with x
Count(seq, x) == Cardinality({i \in 1..Len(seq) : seq[i] = x})

-----------------------------------------------------------------------------
(* Claims about transformHtml                                              *)

C2_NoEarlyTermination ==
    HtmlDone =>
        \A k \in 1..Len(pieces) :
            (pieces[k].kind = "script" /\ Resolvable(pieces[k])) =>
                /\ IsScriptElement(Seg(k), pieces[k])
                /\ IndexOfCI(BodyOf(k), "</script>", 1) = 0

\* C4: a matched tag whose reference the resolver does not resolve stays as it
\* was written, one warning is emitted for it, and everything else in the
\* document is what it would be without it: the other matched tags are inlined,
\* the rest is unchanged.
C4_UnresolvedLeftIntact ==
    HtmlDone =>
        /\ result = OutAll(pieces)
        /\ \A k \in 1..Len(pieces) :
            Unresolvable(pieces[k]) =>
                /\ Seg(k) = Render(pieces[k])
                /\ Count([i \in 1..Len(warnings) |-> warnings[i].tag], Render(pieces[k]))
                   = Count([i \in 1..Len(pieces) |-> Render(pieces[i])], Render(pieces[k]))

C4_Witness ==
    /\ HtmlDone
    /\ pieces = <<ScriptMarked, LinkMarked>>
    /\ files[JsPath] = Null /\ files[CssPath] = CssPlain
    /\ result = "<script inline src=\"a.js\"></script><style>.a{}</style>"
    /\ Len(warnings) = 1

C7_LinkInlined ==
    HtmlDone =>
        \A k \in 1..Len(pieces) :
            (pieces[k].kind = "link" /\ Resolvable(pieces[k])) =>
                /\ Seg(k) = StyleOpen(pieces[k]) \o files[Ref(pieces[k])] \o "</style>"
                /\ IndexOfCI(Seg(k), "<link", 1) = 0
                /\ KeysOf(OpenAttrsOf(k, "<style"))
                   = KeptKeys(pieces[k], {attr, "rel", "href"})

C7_Witness ==
    /\ HtmlDone
    /\ pieces = <<LinkMarked, LinkMarkedAttrs>>
    /\ files[CssPath] = CssPlain
    /\ result = "<style>.a{}</style><style media=\"print\">.a{}</style>"

-----------------------------------------------------------------------------
(* What transformJsx makes of a component source, read from its fragments  *)
(* As above, these definitions are the vocabulary of the properties; the   *)
(* expected text (JsxElem, ImportOf, JsxOut) is written without the        *)
(* operators translated from transformJsx.                                 *)

JsxDone == mode = "jsx" /\ pc = "done"

\* a fragment that ends a script element
ClosesScript(t) == t.kind = "script" /\ t.form = "paired"

\* a self-closing script tag that carries the trigger attribute
SelfClosedTrigger(t) == t.kind = "script" /\ t.form = "selfclose" /\ PHas(t, attr)

\* the first fragment after i that ends a script element; 0 when there is none
NextClose(i) ==
    LET S == {j \in (i + 1)..Len(pieces) : ClosesScript(pieces[j])}
    IN IF S = {} THEN 0 ELSE CHOOSE j \in S : \A x \in S : j <= x

\* fragment k lies inside the extent the script expression gives to a
\* self-closing tag before it: that extent runs on to the next closing tag
RECURSIVE Swallowed(_)
Swallowed(k) ==
    \E i \in 1..(k - 1) :
        /\ SelfClosedTrigger(pieces[i])
        /\ ~Swallowed(i)
        /\ NextClose(i) >= k

\* the same, the tag being rewritten: its replacement takes the whole extent
Removed(k) ==
    \E i \in 1..(k - 1) :
        /\ SelfClosedTrigger(pieces[i])
        /\ ~Swallowed(i)
        /\ NextClose(i) >= k
        /\ Marked(pieces[i], attr)

Rewritten(k) ==
    /\ Marked(pieces[k], attr)
    /\ IF pieces[k].kind = "script" THEN ~Swallowed(k) ELSE ~Removed(k)

RewrittenOf(kind) == {k \in 1..Len(pieces) : pieces[k].kind = kind /\ Rewritten(k)}

\* the number of the binding of a rewritten fragment: the scripts first, in
\* document order, then the stylesheet links, in document order
Number(k) ==
    IF pieces[k].kind = "script"
    THEN Cardinality({i \in RewrittenOf("script") : i < k})
    ELSE Cardinality(RewrittenOf("script"))
         + Cardinality({i \in RewrittenOf("link") : i < k})

\* the number the fragment would have were all tags numbered in document order
DocumentOrder(k) ==
    Cardinality({i \in RewrittenOf("script") \cup RewrittenOf("link") : i < k})

Binding(n) == "__inline_" \o ToString(n)

\* the element that binds its raw-content property to binding n
JsxElem(t, n) ==
    IF t.kind = "script"
    THEN "<script" \o Kept(t.attrs, {attr, "src"})
         \o " dangerouslySetInnerHTML={{__html: " \o Binding(n) \o "}}></script>"
    ELSE "<style" \o Kept(t.attrs, {attr, "rel", "href"})
         \o " dangerouslySetInnerHTML={{__html: " \o Binding(n) \o "}} />"

ImportOf(t, n) == "import " \o Binding(n) \o " from '" \o Ref(t) \o "?__inline_build'"

\* what the rewritten source holds in the place of fragment k
JsxOut(k) ==
    IF Removed(k) THEN ""
    ELSE IF Rewritten(k) THEN JsxElem(pieces[k], Number(k))
    ELSE Render(pieces[k])

RECURSIVE JsxOutRange(_, _)
JsxOutRange(lo, hi) == IF lo > hi THEN "" ELSE JsxOut(lo) \o JsxOutRange(lo + 1, hi)

JsxSeg(k) ==
    SubSeq(result,
           Len(JsxOutRange(1, k - 1)) + 1,
           Len(result) - Len(JsxOutRange(k + 1, Len(pieces))))

-----------------------------------------------------------------------------
(* Claims about transformJsx and about both transforms                     *)

\* C6: in both transforms a script or link tag that does not satisfy the match
\* condition (no trigger attribute, a script without src, a link without href
\* or whose rel is not stylesheet) is left as it was written, and transformHtml
\* does not ask the resolver about it.
C6_UnmatchedUntouched ==
    \A k \in 1..Len(pieces) :
        (pieces[k].kind \in {"script", "link"} /\ ~Marked(pieces[k], attr)) =>
            /\ HtmlDone =>
                /\ Seg(k) = Render(pieces[k])
                /\ \A i \in 1..Len(calls) : calls[i].tag # Render(pieces[k])
            /\ JsxDone => Includes(result, Render(pieces[k]))

C9_DocumentOrder ==
    JsxDone =>
        \A k \in 1..Len(pieces) :
            Rewritten(k) => JsxSeg(k) = JsxElem(pieces[k], DocumentOrder(k))

\* C9 amended: the N rewritten tags receive the bindings __inline_0 ..
\* __inline_{N-1}, each once: the rewritten script tags first, in document
\* order, then the rewritten stylesheet links, in document order.
C9_ScriptsThenLinks ==
    JsxDone =>
        /\ counter = Cardinality(RewrittenOf("script") \cup RewrittenOf("link"))
        /\ Len(imports) = counter
        /\ \A k \in 1..Len(pieces) :
            Rewritten(k) =>
                /\ Number(k) \in 0..(counter - 1)
                /\ JsxSeg(k) = JsxElem(pieces[k], Number(k))
                /\ StartsAt(imports[Number(k) + 1], 1, "import " \o Binding(Number(k)) \o " ")

C9_Witness ==
    /\ JsxDone
    /\ pieces = <<LinkMarked, ScriptMarked>>
    /\ result = "<style dangerouslySetInnerHTML={{__html: __inline_1}} />"
                \o "<script dangerouslySetInnerHTML={{__html: __inline_0}}></script>"
    /\ imports = <<"import __inline_0 from 'a.js?__inline_build'",
                   "import __inline_1 from 'a.css?__inline_build'">>

\* C10: each matched script tag, paired or self-closing, and each matched
\* stylesheet link has exactly one import statement of its reference, and the
\* imports are as many as the matched tags.
C10_OneImportPerTag ==
    JsxDone =>
        /\ Len(imports) = Cardinality({k \in 1..Len(pieces) : Marked(pieces[k], attr)})
        /\ \A k \in 1..Len(pieces) :
            Marked(pieces[k], attr) =>
                \E n \in 0..(Len(imports) - 1) :
                    /\ imports[n + 1] = ImportOf(pieces[k], n)
                    /\ Includes(result, JsxElem(pieces[k], n))

\* the texts occur in s one after the other, in their order, from index from on
RECURSIVE OccurInOrder(_, _, _)
OccurInOrder(texts, s, from) ==
    IF texts = <<>> THEN TRUE
    ELSE LET i == IndexOf(s, Head(texts), from)
         IN i # 0 /\ OccurInOrder(Tail(texts), s, i + Len(Head(texts)))

\* the texts of the fragments that are not matched tags, in document order
RECURSIVE UnmatchedTexts(_)
UnmatchedTexts(k) ==
    IF k > Len(pieces) THEN <<>>
    ELSE (IF Marked(pieces[k], attr) THEN <<>> ELSE <<Render(pieces[k])>>)
         \o UnmatchedTexts(k + 1)

\* the lines of a text that ends each of them with a line feed
RECURSIVE LinesOf(_)
LinesOf(text) ==
    LET i == IndexOf(text, "\n", 1)
    IN IF i = 0 THEN <<>>
       ELSE <<SubSeq(text, 1, i - 1)>> \o LinesOf(SubSeq(text, i + 1, Len(text)))

\* C11: transformJsx returns none exactly when no import was generated, the
\* failed pre-check included; otherwise the value returned is the import
\* statements, one per line in binding order, followed by the rewritten
\* source, and the text of the source outside the matched tags is in the
\* rewritten source unchanged.
C11_ReturnContract ==
    JsxDone =>
        /\ (returned = Null) <=> (imports = <<>>)
        /\ imports # <<>> =>
               /\ SubSeq(returned, Len(returned) - Len(result) + 1, Len(returned)) = result
               /\ LinesOf(SubSeq(returned, 1, Len(returned) - Len(result))) = imports
               /\ \A n \in 1..Len(imports) :
                      StartsAt(imports[n], 1, "import " \o Binding(n - 1) \o " from '")
        /\ OccurInOrder(UnmatchedTexts(1), result, 1)

-----------------------------------------------------------------------------
(* transformHtml on documents that hold a self-closing script tag          *)

HtmlScriptSelf == Tag("script", <<B("inline"), A("src", JsPath)>>, "selfclose", "")

SelfPalette == {HtmlScriptSelf, ScriptMarked, ScriptPlain, LinkMarked, LinkMarkedAttrs, Para}

InitHtmlSelf ==
    /\ mode = "html"
    /\ framework = Null
    /\ isBuild = FALSE
    /\ attr = DefaultAttr
    /\ pieces \in Documents(SelfPalette)
    /\ files \in Resolvers
    /\ html = RenderAll(pieces)
    /\ result = html
    /\ pc = "start"
    /\ matches = <<>>
    /\ warnings = <<>>
    /\ calls = <<>>
    /\ code = ""
    /\ imports = <<>>
    /\ counter = 0
    /\ acc = ""
    /\ pos = 0
    /\ returned = Null
    /\ BuildIdle

SpecHtmlSelf == InitHtmlSelf /\ [][NextHtml]_vars

\* C14: a marked script tag, paired or self-closing, and a marked stylesheet
\* link, self-closing or not, is replaced by its own inlined element when its
\* reference resolves, and nothing outside the tag's extent is consumed: every
\* other fragment of the document stands in the returned document as written.
C14_BothFormsRecognised ==
    HtmlDone =>
        /\ result = OutAll(pieces)
        /\ \A k \in 1..Len(pieces) : Seg(k) = Out(pieces[k])

-----------------------------------------------------------------------------
(* internal/inline-utils and the plugin factory: a Rollup build session    *)

MaxMarkers == 2

\* '\0inline-build:' and '\0inline-css:', the NUL character written as \0
BUILD_PREFIX == "\\0inline-build:"
CSS_LOADER_PREFIX == "\\0inline-css:"

\* process.cwd(), the entry module, and the two files that are inlined
Root == "/r"
MainId == "/r/main.js"
JsFile == "/r/a.js"
CssFile == "/r/b.css"

EndsWith(s, lit) == Len(s) >= Len(lit) /\ SubSeq(s, Len(s) - Len(lit) + 1, Len(s)) = lit

\* index of the last occurrence of lit in s; 0 when there is none
RECURSIVE LastIndexOf(_, _, _)
LastIndexOf(s, lit, from) ==
    IF from < 1 THEN 0
    ELSE IF StartsAt(s, from, lit) THEN from
    ELSE LastIndexOf(s, lit, from - 1)

\* path.dirname of an absolute path
dirname(p) ==
    LET i == LastIndexOf(p, "/", Len(p))
    IN IF i <= 1 THEN "/" ELSE SubSeq(p, 1, i - 1)

\* path.basename(p, ext)
basename(p, ext) ==
    LET i == LastIndexOf(p, "/", Len(p))
        name == SubSeq(p, i + 1, Len(p))
    IN IF EndsWith(name, ext) /\ Len(name) > Len(ext)
       THEN SubSeq(name, 1, Len(name) - Len(ext))
       ELSE name

\* path.resolve(base, rel) for an absolute base and a rel without ".." segments
PathResolve(base, rel) ==
    IF StartsAt(rel, 1, "/") THEN rel
    ELSE IF StartsAt(rel, 1, "./") THEN base \o "/" \o SubSeq(rel, 3, Len(rel))
    ELSE base \o "/" \o rel

\* importer.replace(/\?.*$/, '')
StripQuery(id) ==
    LET i == IndexOf(id, "?", 1)
    IN IF i = 0 THEN id ELSE SubSeq(id, 1, i - 1)

resolveInlinePath(filePath, importer, root) ==
    IF StartsAt(filePath, 1, "/") THEN PathResolve(root, SubSeq(filePath, 2, Len(filePath)))
    ELSE IF importer # Null /\ importer # ""
    THEN PathResolve(dirname(StripQuery(importer)), filePath)
    ELSE PathResolve(root, filePath)

\* /\.css$/i.test(filePath) ? 'css' : 'js'
getInlineFileType(filePath) ==
    IF Len(filePath) >= 4 /\ LowerStr(SubSeq(filePath, Len(filePath) - 3, Len(filePath))) = ".css"
    THEN "css" ELSE "js"

\* a variant of MarkerOf without the closing underscores
MarkerOfOpen(n) == "__INLINE_BUILD_" \o ToString(n)

\* `__INLINE_BUILD_${markerCounter++}__`
MarkerOf(n) == "__INLINE_BUILD_" \o ToString(n) \o "__"

\* JSON.stringify of a string: the escapes of its characters, between quotes
RECURSIVE JsonEscape(_)
JsonEscape(s) ==
    IF Len(s) = 0 THEN ""
    ELSE IF Len(s) = 1
    THEN (IF s = "\"" THEN "\\\""
          ELSE IF s = "\\" THEN "\\\\"
          ELSE IF s = "\n" THEN "\\n"
          ELSE IF s = "\r" THEN "\\r"
          ELSE IF s = "\t" THEN "\\t"
          ELSE IF s = "\f" THEN "\\f"
          ELSE s)
    ELSE JsonEscape(SubSeq(s, 1, Len(s) \div 2))
         \o JsonEscape(SubSeq(s, Len(s) \div 2 + 1, Len(s)))

JsonStringify(s) == "\"" \o JsonEscape(s) \o "\""

\* the grave accent, taken out of a two-character string
Backtick == SubSeq("`'", 1, 1)

\* the replacement text String.prototype.replace makes of a replacement string
\* for one match of an expression without groups: $$, $&, $ with a grave
\* accent (the text before the match) and $ with a quote (the text after it)
RECURSIVE ExpandReplacement(_, _, _, _)
ExpandReplacement(repl, matched, before, after) ==
    LET i == IndexOf(repl, "$", 1)
        c == CharAt(repl, i + 1)
        rest == SubSeq(repl, i + 2, Len(repl))
    IN IF i = 0 \/ i = Len(repl) THEN repl
       ELSE SubSeq(repl, 1, i - 1)
            \o (IF c = "$" THEN "$" \o ExpandReplacement(rest, matched, before, after)
                ELSE IF c = "&" THEN matched \o ExpandReplacement(rest, matched, before, after)
                ELSE IF c = Backtick THEN before \o ExpandReplacement(rest, matched, before, after)
                ELSE IF c = "'" THEN after \o ExpandReplacement(rest, matched, before, after)
                ELSE "$" \o ExpandReplacement(SubSeq(repl, i + 1, Len(repl)),
                                              matched, before, after))

\* text.replace(new RegExp(lit, 'g'), repl) for a literal without special characters
RECURSIVE ReplaceFrom(_, _, _, _)
ReplaceFrom(text, lit, repl, from) ==
    LET i == IndexOf(text, lit, from)
    IN IF i = 0 THEN SubSeq(text, from, Len(text))
       ELSE SubSeq(text, from, i - 1)
            \o ExpandReplacement(repl, lit, SubSeq(text, 1, i - 1),
                                 SubSeq(text, i + Len(lit), Len(text)))
            \o ReplaceFrom(text, lit, repl, i + Len(lit))

\* code.replace(new RegExp(`"${marker}"`, 'g'), JSON.stringify(content))
replaceMarker(text, marker, content) ==
    ReplaceFrom(text, "\"" \o marker \o "\"", JsonStringify(content), 1)

\* the files on disk: what the inlined files hold, Null for an unreadable file
JsQuoted == "say(\"hi\")"
JsDollar == "esc(s,'\\\\$&')"
CssRule == ".b{}"

Disks ==
    {[p \in {JsFile, CssFile} |-> IF p = JsFile THEN js ELSE css] :
        js \in {Null, JsQuoted, JsDollar},
        css \in {Null, CssRule}}

\* the import specifiers the bundler asks the plugin to resolve
Sources == {"/a.js" \o INLINE_QUERY, "./b.css" \o INLINE_QUERY, "./util.js"}

InitBuild ==
    /\ mode = "build"
    /\ framework = "rollup"
    /\ isBuild = FALSE
    /\ pc = "resolve"
    /\ attr = DefaultAttr
    /\ files \in Disks
    /\ pieces = <<>>
    /\ html = ""
    /\ result = ""
    /\ matches = <<>>
    /\ warnings = <<>>
    /\ calls = <<>>
    /\ code = ""
    /\ imports = <<>>
    /\ counter = 0
    /\ acc = ""
    /\ pos = 0
    /\ returned = Null
    /\ BuildIdle

\* inlineRegistry.get(marker): the index of the entry, 0 when there is none
RegistryIndex(marker) ==
    LET S == {i \in 1..Len(inlineRegistry) : inlineRegistry[i].marker = marker}
    IN IF S = {} THEN 0 ELSE CHOOSE i \in S : TRUE

\* a registerMarker that mints the key of the first entry again
NewEntrySameKey(resolved, type) ==
    [marker |-> MarkerOf(0), filePath |-> resolved, type |-> type,
     refId |-> "ref" \o ToString(Len(inlineRegistry))]

\* registerMarker followed by entry.refId = ctx.emitFile(...): the entry that
\* the registry gains; the reference id is the bundler's, one per emitted chunk
NewEntry(resolved, type) ==
    [marker |-> MarkerOf(markerCounter), filePath |-> resolved, type |-> type,
     refId |-> "ref" \o ToString(Len(inlineRegistry))]

\* the ids of the chunks emitted so far that go through resolveId themselves
CssLoaderIds ==
    {CSS_LOADER_PREFIX \o inlineRegistry[i].marker :
        i \in {j \in 1..Len(inlineRegistry) : inlineRegistry[j].type = "css"}}

\* rollupResolveId(ctx, source, importer). The importer is the entry module or
\* the inlined script, once the bundler has it; the script does not import itself
RollupResolveId ==
    /\ mode = "build" /\ pc = "resolve"
    /\ \E source \in Sources \cup CssLoaderIds, importer \in {MainId, JsFile} :
        /\ importer = JsFile =>
               /\ \E i \in 1..Len(inlineRegistry) : inlineRegistry[i].filePath = JsFile
               /\ source # "/a.js" \o INLINE_QUERY
        /\ IF StartsAt(source, 1, CSS_LOADER_PREFIX)
           THEN /\ returned' = source
                /\ UNCHANGED <<inlineRegistry, markerCounter, edges>>
           ELSE IF ~EndsWith(source, INLINE_QUERY)
           THEN /\ returned' = Null
                /\ UNCHANGED <<inlineRegistry, markerCounter, edges>>
           ELSE LET filePath == Slice(source, 0, Len(source) - Len(INLINE_QUERY))
                    resolved == resolveInlinePath(filePath, importer, Root)
                    entry == NewEntry(resolved, getInlineFileType(resolved))
                IN /\ markerCounter < MaxMarkers
                   /\ inlineRegistry' = Append(inlineRegistry, entry)
                   /\ markerCounter' = markerCounter + 1
                   /\ edges' = Append(edges, [importer |-> importer, marker |-> entry.marker])
                   /\ returned' = BUILD_PREFIX \o entry.marker
    /\ UNCHANGED <<viteVars, inputVars, htmlVars, pc, result, matches, code, imports, counter,
                   acc, pos, modules, bundle, fileNames, cursor, contents>>

\* rollupLoad(id)
rollupLoad(id) ==
    IF StartsAt(id, 1, CSS_LOADER_PREFIX)
    THEN LET marker == Slice(id, Len(CSS_LOADER_PREFIX), Len(id))
             i == RegistryIndex(marker)
         IN IF i # 0 THEN "import " \o JsonStringify(inlineRegistry[i].filePath) ELSE Null
    ELSE IF ~StartsAt(id, 1, BUILD_PREFIX) THEN Null
    ELSE "export default \"" \o Slice(id, Len(BUILD_PREFIX), Len(id)) \o "\""

\* the ids resolveId has answered with, which the bundler then loads
LoadableIds ==
    {BUILD_PREFIX \o inlineRegistry[i].marker : i \in 1..Len(inlineRegistry)}
    \cup CssLoaderIds

Loaded(id) == \E m \in modules : m.id = id

\* the bundler loads one of the resolved modules
RollupLoad ==
    /\ mode = "build" /\ pc = "resolve"
    /\ \E id \in LoadableIds :
        /\ ~Loaded(id)
        /\ modules' = modules \cup {[id |-> id, source |-> rollupLoad(id)]}
    /\ UNCHANGED <<viteVars, inputVars, htmlVars, jsxVars, pc, result, matches, inlineRegistry, markerCounter, edges, bundle, fileNames,
                   cursor, contents>>

\* what the bundler makes of a loaded marker module `export default <literal>`
\* in the module that imports it: the literal, bound to a local name
LiteralOf(marker) ==
    LET source == (CHOOSE m \in modules : m.id = BUILD_PREFIX \o marker).source
    IN Slice(source, Len("export default "), Len(source))

\* the inline imports of a module in the order of its import statements, the
\* script before the stylesheet, whatever the order they were resolved in
ImportsOf(importer) ==
    LET Of(path) ==
            SelectSeq(edges, LAMBDA e : /\ e.importer = importer
                                        /\ inlineRegistry[RegistryIndex(e.marker)].filePath = path)
    IN Of(JsFile) \o Of(CssFile)

RECURSIVE DeclsFrom(_, _)
DeclsFrom(importer, k) ==
    IF k > Len(ImportsOf(importer)) THEN ""
    ELSE "v" \o ToString(k) \o "=" \o LiteralOf(ImportsOf(importer)[k].marker) \o ";"
         \o DeclsFrom(importer, k + 1)

Artifact(name, type, text, css) == [name |-> name, type |-> type, text |-> text, css |-> css]

\* the output file names the bundler gives
EntryChunkName == "assets/a.js"
CssAssetName == "assets/b.css"
WrapperName(i) == "assets/w" \o ToString(i) \o ".js"

\* the chunks of the application itself: the marker literals once, twice in
\* one chunk, or in two chunks
AppChunks(layout) ==
    LET d == DeclsFrom(MainId, 1)
    IN IF layout = "once" THEN <<Artifact("main.js", "chunk", d \o "run()", <<>>)>>
       ELSE IF layout = "twice" THEN <<Artifact("main.js", "chunk", d \o d \o "run()", <<>>)>>
       ELSE <<Artifact("main.js", "chunk", d \o "run()", <<>>),
              Artifact("other.js", "chunk", d \o "more()", <<>>)>>

\* the HTML page another plugin emits into the bundle, "" for none
Pages ==
    {"",
     "<script inline src=\"/main.js\"></script>",
     "<link inline rel=\"stylesheet\" href=\"./assets/b.css\">"}

\* the first registry entry of a file: the chunk of a file is emitted once
FirstOf(i) == \A j \in 1..(i - 1) : inlineRegistry[j].filePath # inlineRegistry[i].filePath

\* the artifacts the bundler writes for the chunk emitted for entry i; what it
\* writes is not the text of the file: the code of a chunk ends with a
\* semicolon of the bundler's, a style asset with a newline
RECURSIVE EntryArtifacts(_, _, _)
EntryArtifacts(i, built, meta) ==
    IF i > Len(inlineRegistry) THEN <<>>
    ELSE LET e == inlineRegistry[i]
             own ==
                 IF ~built[i] THEN <<>>
                 ELSE IF e.type = "js"
                 THEN (IF FirstOf(i)
                       THEN <<Artifact(EntryChunkName, "chunk",      \* imports, then own code
                                       DeclsFrom(e.filePath, 1) \o files[e.filePath] \o ";",
                                       <<>>)>>
                       ELSE <<>>)
                 ELSE <<Artifact(WrapperName(i), "chunk", "",
                                 IF meta THEN <<CssAssetName>> ELSE <<>>)>>
                      \o (IF FirstOf(i)
                          THEN <<Artifact(CssAssetName, "asset", files[e.filePath] \o "\n", <<>>)>>
                          ELSE <<>>)
         IN own \o EntryArtifacts(i + 1, built, meta)

\* the bundler generates the output: whether the chunk emitted for an entry is
\* part of it (built), whether wrapper chunks carry viteMetadata (meta), and
\* the HTML page of the bundle
BundlerGenerateWith(others) ==
    /\ mode = "build" /\ pc = "resolve"
    /\ framework \in {"rollup", "rolldown"}
    /\ \A id \in LoadableIds : Loaded(id)
    /\ \E layout \in {"once", "twice", "split"}, meta \in BOOLEAN, page \in Pages,
          built \in [1..Len(inlineRegistry) -> BOOLEAN] :
        /\ \A i \in 1..Len(inlineRegistry) :
              /\ built[i] => files[inlineRegistry[i].filePath] # Null
              /\ ~FirstOf(i) =>
                     built[i] = built[CHOOSE j \in 1..i :
                                        /\ FirstOf(j)
                                        /\ inlineRegistry[j].filePath = inlineRegistry[i].filePath]
        /\ bundle' = AppChunks(layout) \o others \o EntryArtifacts(1, built, meta)
                      \o (IF page = "" THEN <<>>
                          ELSE <<Artifact("index.html", "asset", page, <<>>)>>)
        /\ fileNames' =
              [r \in {inlineRegistry[i].refId : i \in 1..Len(inlineRegistry)} |->
                  LET i == CHOOSE j \in 1..Len(inlineRegistry) : inlineRegistry[j].refId = r
                  IN IF ~built[i] THEN Null
                     ELSE IF inlineRegistry[i].type = "js" THEN EntryChunkName
                     ELSE WrapperName(i)]
        /\ backend' = [backend EXCEPT !.choice =
                          <<[layout |-> layout, meta |-> meta, page |-> page,
                             built |-> {inlineRegistry[i].filePath :
                                           i \in {j \in 1..Len(inlineRegistry) : built[j]}}]>>]
    /\ pc' = "finalize"
    /\ cursor' = 0
    /\ contents' = <<>>
    /\ UNCHANGED <<viteVars, mode, framework, isBuild, attr, files, pieces, htmlVars, jsxVars,
                   result, matches, inlineRegistry, markerCounter, edges, modules>>

\* a build whose output holds the chunks of the application, the artifacts of
\* the emitted chunks and the page
BundlerGenerate == BundlerGenerateWith(<<>>)

\* a build in which another plugin has put the style asset of another
\* stylesheet of the application, tab.css, into the output
OtherStyleName == "assets/tab.css"
BundlerGenerateStyled ==
    BundlerGenerateWith(<<Artifact(OtherStyleName, "asset", ".t{}\n", <<>>)>>)

\* a bundle from which nothing is deleted
BundleKeep(b, name) == b

\* bundle[name]: the index of the artifact, 0 when there is none
BundleIndex(b, name) ==
    LET S == {i \in 1..Len(b) : b[i].name = name}
    IN IF S = {} THEN 0 ELSE CHOOSE i \in S : TRUE

\* delete bundle[name]
BundleDelete(b, name) == SelectSeq(b, LAMBDA x : x.name # name)

\* the first index at or after k of a .css asset whose name includes base
RECURSIVE FirstCssAsset(_, _, _)
FirstCssAsset(b, base, k) ==
    IF k > Len(b) THEN 0
    ELSE IF b[k].type = "asset" /\ EndsWith(b[k].name, ".css") /\ Includes(b[k].name, base)
    THEN k
    ELSE FirstCssAsset(b, base, k + 1)

\* the first name of importedCss that is an asset of the bundle; "" when none is
RECURSIVE FirstImportedAsset(_, _)
FirstImportedAsset(b, names) ==
    IF names = <<>> THEN ""
    ELSE IF BundleIndex(b, Head(names)) # 0 /\ b[BundleIndex(b, Head(names))].type = "asset"
    THEN Head(names)
    ELSE FirstImportedAsset(b, Tail(names))

\* extractCssFromWrapper(bundle, entry, wrapperChunk): the content returned and
\* the bundle it leaves
extractCssFromWrapper(b, entry, wrapperName) ==
    LET wrapper == b[BundleIndex(b, wrapperName)]
        cssName == FirstImportedAsset(b, wrapper.css)
        k == FirstCssAsset(b, basename(entry.filePath, ".css"), 1)
    IN IF cssName # ""
       THEN [content |-> b[BundleIndex(b, cssName)].text,
             bundle |-> [j \in 1..(Len(b) - 1) |->
                            LET x == BundleDelete(b, cssName)[j]
                            IN IF x.name = wrapperName
                               THEN [x EXCEPT !.css = SelectSeq(x.css, LAMBDA n : n # cssName)]
                               ELSE x]]
       ELSE IF k # 0
       THEN [content |-> b[k].text, bundle |-> BundleDelete(b, b[k].name)]
       ELSE [content |-> Null, bundle |-> b]

\* a disk from which nothing can be read
readFileNever(filePath) == Null

\* readFile(filePath, 'utf-8') inside try/catch: Null when it throws
readFile(filePath) == IF filePath \in DOMAIN files THEN files[filePath] ELSE Null

\* the part of an iteration of replaceInlineMarkersInBundle that looks the
\* emitted chunk up: the content it gives and the bundle it leaves
ObtainFromBundle(b, entry) ==
    LET fileName == IF entry.refId \in DOMAIN fileNames THEN fileNames[entry.refId] ELSE Null
        k == BundleIndex(b, fileName)
    IN IF entry.refId = Null \/ fileName = Null THEN [content |-> Null, bundle |-> b]
       ELSE IF k = 0 \/ b[k].type # "chunk" THEN [content |-> Null, bundle |-> b]
       ELSE IF entry.type = "js"
       THEN [content |-> b[k].text, bundle |-> BundleDelete(b, fileName)]
       ELSE LET r == extractCssFromWrapper(b, entry, fileName)
            IN [content |-> r.content, bundle |-> BundleDelete(r.bundle, fileName)]

\* the loop over Object.values(bundle) that replaces the marker
ReplaceInChunks(b, marker, content) ==
    [i \in 1..Len(b) |->
        IF b[i].type = "chunk" /\ Includes(b[i].text, marker)
        THEN [b[i] EXCEPT !.text = replaceMarker(b[i].text, marker, content)]
        ELSE b[i]]

\* one iteration of the loop of replaceInlineMarkersInBundle over the registry
ReplaceMarkersStep ==
    /\ mode = "build" /\ pc = "finalize"
    /\ cursor < Len(inlineRegistry)
    /\ LET entry == inlineRegistry[cursor + 1]
           got == ObtainFromBundle(bundle, entry)
           content == IF got.content = Null THEN readFile(entry.filePath) ELSE got.content
       IN /\ bundle' = IF content = Null THEN got.bundle
                       ELSE ReplaceInChunks(got.bundle, entry.marker, content)
          /\ contents' = Append(contents, content)
    /\ cursor' = cursor + 1
    /\ UNCHANGED <<viteVars, inputVars, htmlVars, jsxVars, pc, result, matches, inlineRegistry,
                   markerCounter, edges, modules, fileNames>>

\* src.replace(/^\.?\//, '')
NormalizeSrc(src) ==
    IF StartsAt(src, 1, "./") THEN SubSeq(src, 3, Len(src))
    ELSE IF StartsAt(src, 1, "/") THEN SubSeq(src, 2, Len(src))
    ELSE src

\* the asset resolver rollupGenerateBundle hands to inlineHtmlAssets: the first
\* artifact whose name is, or ends with, the normalized reference
RECURSIVE AssetResolveFrom(_, _, _)
AssetResolveFrom(b, normalized, k) ==
    IF k > Len(b) THEN Null
    ELSE IF b[k].name = normalized \/ EndsWith(b[k].name, normalized) THEN b[k].text
    ELSE AssetResolveFrom(b, normalized, k + 1)

AssetResolve(b, src) == AssetResolveFrom(b, NormalizeSrc(src), 1)

\* the loop of transformHtml over scriptMatches.reverse(), the resolver being
\* the asset resolver over bundle b: the text and the warnings it ends with
RECURSIVE ScriptLoop(_, _, _)
ScriptLoop(acc0, ms, b) ==
    IF ms = <<>> THEN acc0
    ELSE LET Iteration(match, attrs) ==
                 LET call == [tag |-> match.m0, path |-> AttrGet(attrs, "src")]
                     Resolved(content) ==
                         IF content = Null THEN [acc0 EXCEPT !.warnings = Warn(@, call)]
                         ELSE [acc0 EXCEPT !.text =
                                  Splice(@, match, ScriptReplacement(attrs, content))]
                 IN IF ScriptSkipped(attrs) THEN acc0
                    ELSE Resolved(AssetResolve(b, AttrGet(attrs, "src")))
         IN ScriptLoop(Iteration(Head(ms), parseAttributes(Head(ms).m1)), Tail(ms), b)

\* the loop of transformHtml over linkMatches.reverse(), likewise
RECURSIVE LinkLoop(_, _, _)
LinkLoop(acc0, ms, b) ==
    IF ms = <<>> THEN acc0
    ELSE LET Iteration(match, attrs) ==
                 LET call == [tag |-> match.m0, path |-> AttrGet(attrs, "href")]
                     Resolved(content) ==
                         IF content = Null THEN [acc0 EXCEPT !.warnings = Warn(@, call)]
                         ELSE [acc0 EXCEPT !.text =
                                  Splice(@, match, LinkReplacement(attrs, content))]
                 IN IF LinkSkipped(attrs) THEN acc0
                    ELSE Resolved(AssetResolve(b, AttrGet(attrs, "href")))
         IN LinkLoop(Iteration(Head(ms), parseAttributes(Head(ms).m1)), Tail(ms), b)

\* transformHtml(asset.content, resolver, options) as inlineHtmlAssets calls it
transformHtml(text, ws, b) ==
    LET Links(scripts) ==
            LinkLoop(scripts, Reverse(collectMatches(scripts.text, "link")), b)
    IN Links(ScriptLoop([text |-> text, warnings |-> ws],
                        Reverse(collectMatches(text, "script")), b))

\* inlineHtmlAssets over the .html assets of the bundle, in order, followed by
\* the loop that writes the transformed text back: the bundle and the warnings
RECURSIVE inlineHtmlAssets(_, _, _, _)
inlineHtmlAssets(b, k, out, ws) ==
    IF k > Len(b) THEN [bundle |-> out, warnings |-> ws]
    ELSE IF EndsWith(b[k].name, ".html") /\ b[k].type = "asset"
    THEN LET Transformed(t) ==
                 inlineHtmlAssets(b, k + 1, [out EXCEPT ![k].text = t.text], t.warnings)
         IN Transformed(transformHtml(b[k].text, ws, b))
    ELSE inlineHtmlAssets(b, k + 1, out, ws)

\* a hook that goes on with the HTML assets while the loop is still running
GenerateBundleHtmlEarly ==
    /\ mode = "build" /\ pc = "finalize"
    /\ framework \in {"rollup", "rolldown"}
    /\ LET Inlined(r) ==
               /\ bundle' = r.bundle
               /\ warnings' = r.warnings
       IN Inlined(inlineHtmlAssets(bundle, 1, bundle, warnings))
    /\ pc' = IF cursor = Len(inlineRegistry) THEN "done" ELSE pc
    /\ UNCHANGED <<viteVars, inputVars, html, calls, jsxVars, result, matches, inlineRegistry,
                   markerCounter, edges, modules, fileNames, cursor, contents>>

\* the loop is over: rollupGenerateBundle goes on with the HTML assets
GenerateBundleHtml ==
    /\ mode = "build" /\ pc = "finalize"
    /\ framework \in {"rollup", "rolldown"}
    /\ cursor = Len(inlineRegistry)
    /\ LET Inlined(r) ==
               /\ bundle' = r.bundle
               /\ warnings' = r.warnings
       IN Inlined(inlineHtmlAssets(bundle, 1, bundle, warnings))
    /\ pc' = "done"
    /\ UNCHANGED <<viteVars, inputVars, html, calls, jsxVars, result, matches, inlineRegistry,
                   markerCounter, edges, modules, fileNames, cursor, contents>>

NextBuild ==
    \/ RollupResolveId
    \/ RollupLoad
    \/ BundlerGenerate
    \/ ReplaceMarkersStep
    \/ GenerateBundleHtml

Spec == InitBuild /\ [][NextBuild]_vars

BuildDone == mode = "build" /\ pc = "done"

\* C3: once content has been obtained for a marker, no artifact of the final
\* output still contains the token of that marker.
C3_NoTokenLeft ==
    BuildDone =>
        \A i \in 1..Len(contents) :
            contents[i] # Null =>
                \A k \in 1..Len(bundle) : ~Includes(bundle[k].text, inlineRegistry[i].marker)

\* C19: when the lookup of an entry's handle fails (getFileName throws, the
\* named artifact is absent or is no chunk, or no style content is found for a
\* stylesheet entry), the content used is the raw resolved file; when that file
\* cannot be read the entry is skipped and every artifact keeps its text; and
\* the loop goes on: at the end every entry of the registry has been handled.
C19_FallbackToRawFile ==
    /\ [](BuildDone => Len(contents) = Len(inlineRegistry))
    /\ [][(mode = "build" /\ pc = "finalize" /\ cursor' = cursor + 1) =>
            LET e == inlineRegistry[cursor + 1]
                name == fileNames[e.refId]
                IsChunk(n) == \E k \in 1..Len(bundle) : bundle[k].name = n /\ bundle[k].type = "chunk"
                StyleFound ==
                    \E k \in 1..Len(bundle) :
                        /\ bundle[k].type = "asset"
                        /\ \/ \E w \in 1..Len(bundle) :
                                 /\ bundle[w].name = name
                                 /\ \E c \in 1..Len(bundle[w].css) : bundle[w].css[c] = bundle[k].name
                           \/ EndsWith(bundle[k].name, ".css") /\ Includes(bundle[k].name, "b")
                LookupFails == \/ name = Null
                               \/ ~IsChunk(name)
                               \/ e.type = "css" /\ ~StyleFound
            IN LookupFails =>
                   /\ contents'[cursor + 1] = files[e.filePath]
                   /\ files[e.filePath] = Null =>
                          \A k \in 1..Len(bundle') :
                              \E j \in 1..Len(bundle) :
                                  /\ bundle[j].name = bundle'[k].name
                                  /\ bundle[j].text = bundle'[k].text]_vars

\* the script entry could not be looked up nor read and was skipped; the
\* stylesheet entry after it could not be looked up and took the raw file
C19_Witness ==
    /\ BuildDone
    /\ Len(inlineRegistry) = 2
    /\ inlineRegistry[1].filePath = JsFile /\ inlineRegistry[2].filePath = CssFile
    /\ \A i \in 1..2 : fileNames[inlineRegistry[i].refId] = Null
    /\ contents = <<Null, CssRule>>
    /\ \E k \in 1..Len(bundle) :
           Includes(bundle[k].text, "\"__INLINE_BUILD_0__\"") /\ Includes(bundle[k].text, "\".b{}\"")

\* C20: when the handle of an entry names a chunk of the bundle: for a script
\* entry the content used is the code of that chunk; for a stylesheet entry
\* whose loader chunk carries metadata naming an asset of the bundle it is the
\* content of that asset; without metadata it is the content of an asset whose
\* name ends in .css and contains the base name of the file; and the loader
\* chunk of a stylesheet entry is not in the bundle afterwards.
C20_ContentFromEmission ==
    [][(mode = "build" /\ pc = "finalize" /\ cursor' = cursor + 1) =>
          LET e == inlineRegistry[cursor + 1]
              name == fileNames[e.refId]
              Named(b, n) == {k \in 1..Len(b) : b[k].name = n}
              Assets == {k \in 1..Len(bundle) : bundle[k].type = "asset"}
              InMetadata ==
                  {k \in Assets : \E w \in Named(bundle, name) :
                                      \E c \in 1..Len(bundle[w].css) :
                                          bundle[w].css[c] = bundle[k].name}
              ByBaseName ==
                  {k \in Assets : EndsWith(bundle[k].name, ".css") /\ Includes(bundle[k].name, "b")}
              NoMetadata == \A w \in Named(bundle, name) : bundle[w].css = <<>>
          IN (name # Null /\ \E k \in Named(bundle, name) : bundle[k].type = "chunk") =>
                 /\ e.type = "js" =>
                        \E k \in Named(bundle, name) : contents'[cursor + 1] = bundle[k].text
                 /\ (e.type = "css" /\ InMetadata # {}) =>
                        /\ \E k \in InMetadata : contents'[cursor + 1] = bundle[k].text
                        /\ Named(bundle', name) = {}
                 /\ (e.type = "css" /\ NoMetadata /\ ByBaseName # {}) =>
                        /\ \E k \in ByBaseName : contents'[cursor + 1] = bundle[k].text
                        /\ Named(bundle', name) = {}]_vars

\* the script came from its emitted chunk and the stylesheet from the asset
\* that the metadata of its loader chunk names; the loader chunk is gone
C20_Witness ==
    /\ BuildDone
    /\ backend.choice # <<>> /\ backend.choice[1].meta
    /\ Len(inlineRegistry) = 2
    /\ inlineRegistry[1].filePath = JsFile /\ inlineRegistry[2].filePath = CssFile
    /\ contents = <<"say(\"hi\");", ".b{}\n">>
    /\ \A k \in 1..Len(bundle) : bundle[k].name # "assets/w2.js"

-----------------------------------------------------------------------------
(* The plugin factory: registerMarker                                      *)

MaxCalls == 12

\* inlineRegistry.set(marker, entry): a present key keeps its place and takes
\* the new entry, an absent key is added at the end
RegistrySet(registry, entry) ==
    IF \E i \in 1..Len(registry) : registry[i].marker = entry.marker
    THEN [i \in 1..Len(registry) |->
            IF registry[i].marker = entry.marker THEN entry ELSE registry[i]]
    ELSE Append(registry, entry)

\* a freshly constructed plugin: no marker registered
InitRegistry ==
    /\ mode = "registry"
    /\ framework = Null
    /\ isBuild = FALSE
    /\ pc = "open"
    /\ attr = DefaultAttr
    /\ files = <<>>
    /\ pieces = <<>>
    /\ html = ""
    /\ result = ""
    /\ matches = <<>>
    /\ warnings = <<>>
    /\ calls = <<>>
    /\ code = ""
    /\ imports = <<>>
    /\ counter = 0
    /\ acc = ""
    /\ pos = 0
    /\ returned = Null
    /\ BuildIdle

\* registerMarker(filePath, type)
RegisterMarker ==
    /\ mode = "registry"
    /\ markerCounter < MaxCalls
    /\ \E filePath \in {JsFile, CssFile} :
        LET marker == MarkerOf(markerCounter)
        IN /\ markerCounter' = markerCounter + 1
           /\ inlineRegistry' =
                  RegistrySet(inlineRegistry,
                              [marker |-> marker, filePath |-> filePath,
                               type |-> getInlineFileType(filePath), refId |-> Null])
           /\ returned' = marker
           /\ calls' = Append(calls, marker)
    /\ UNCHANGED <<viteVars, inputVars, pc, html, warnings, result, matches, code, imports, counter,
                   acc, pos, edges, modules, bundle, fileNames, cursor, contents>>

SpecRegistry == InitRegistry /\ [][RegisterMarker]_vars

\* C12: after any sequence of registerMarker calls the k-th call returned the
\* token numbered k-1, the minted tokens are pairwise distinct, none of them
\* is a substring of another, and the registry holds one entry per minted
\* token: its size equals the counter.
C12_MarkersUnique ==
    mode = "registry" =>
        /\ Len(calls) = markerCounter
        /\ \A k \in 1..Len(calls) :
               calls[k] = "__INLINE_BUILD_" \o ToString(k - 1) \o "__"
        /\ \A j, k \in 1..Len(calls) :
               j # k => calls[j] # calls[k] /\ ~Includes(calls[j], calls[k])
        /\ Len(inlineRegistry) = markerCounter
        /\ \A k \in 1..Len(calls) :
               Cardinality({i \in 1..Len(inlineRegistry) :
                               inlineRegistry[i].marker = calls[k]}) = 1

\* twelve calls were made: the tokens numbered 1, 10 and 11 are among them
C12_Witness ==
    /\ mode = "registry"
    /\ markerCounter = 12
    /\ calls[2] = "__INLINE_BUILD_1__"
    /\ calls[11] = "__INLINE_BUILD_10__"
    /\ returned = "__INLINE_BUILD_11__"

-----------------------------------------------------------------------------
(* The hooks of a plugin session: resolveId and load of the plugin object  *)
(* and of createViteHtmlHandlers                                           *)

MaxResolves == 3

Frameworks == {"vite", "webpack", "rspack", "esbuild", "farm", "bun"}

MARKER_FRAMEWORKS == {"vite", "rollup", "rolldown", "webpack", "esbuild", "rspack"}

\* every framework taken for one with an output-phase hook, and none
useMarkersAlways == TRUE

useMarkersNever == FALSE

\* const useMarkers = MARKER_FRAMEWORKS.has(meta.framework)
useMarkers == framework \in MARKER_FRAMEWORKS

\* a hook that ended with an error thrown to the bundler
Thrown == "<thrown>"

\* a freshly constructed plugin under one of the bundlers; Vite calls
\* configResolved before it resolves anything
InitHooks ==
    /\ mode = "hooks"
    /\ framework \in Frameworks
    /\ isBuild = FALSE
    /\ pc = IF framework = "vite" THEN "config" ELSE "resolve"
    /\ attr = DefaultAttr
    /\ files \in Disks
    /\ pieces = <<>>
    /\ html = ""
    /\ result = ""
    /\ matches = <<>>
    /\ warnings = <<>>
    /\ calls = <<>>
    /\ code = ""
    /\ imports = <<>>
    /\ counter = 0
    /\ acc = ""
    /\ pos = 0
    /\ returned = Null
    /\ BuildIdle

\* createViteHtmlHandlers: configResolved(config)
ConfigResolved ==
    /\ mode = "hooks" /\ pc = "config"
    /\ \E command \in {"build", "serve"} : isBuild' = (command = "build")
    /\ pc' = "resolve"
    /\ UNCHANGED <<viteVars, mode, framework, attr, files, pieces, backend, htmlVars, jsxVars,
                   buildVars, result, matches>>

\* resolveId(source, importer) of the plugin object, and under Vite the
\* resolveId of createViteHtmlHandlers that takes its place; calls records
\* the source and the returned id of each call
ResolveId ==
    /\ mode = "hooks" /\ pc = "resolve"
    /\ Len(calls) < MaxResolves
    /\ \E source \in Sources \cup (IF framework = "vite" THEN CssLoaderIds ELSE {}) :
        LET filePath == Slice(source, 0, Len(source) - Len(INLINE_QUERY))
            resolved == resolveInlinePath(filePath, MainId, Root)
            type == getInlineFileType(resolved)
            Return(id) == /\ returned' = id
                          /\ calls' = Append(calls, [source |-> source, id |-> id])
        IN IF framework = "vite" /\ StartsAt(source, 1, CSS_LOADER_PREFIX)
           THEN Return(source) /\ UNCHANGED <<inlineRegistry, markerCounter, edges>>
           ELSE IF ~EndsWith(source, INLINE_QUERY)
           THEN Return(Null) /\ UNCHANGED <<inlineRegistry, markerCounter, edges>>
           ELSE IF framework = "vite" /\ isBuild
           THEN /\ inlineRegistry' = Append(inlineRegistry, NewEntry(resolved, type))
                /\ markerCounter' = markerCounter + 1
                /\ edges' = Append(edges, [importer |-> MainId, marker |-> MarkerOf(markerCounter)])
                /\ Return(BUILD_PREFIX \o MarkerOf(markerCounter))
           ELSE IF framework # "vite" /\ useMarkers
           THEN /\ inlineRegistry' =
                       RegistrySet(inlineRegistry,
                                   [marker |-> MarkerOf(markerCounter), filePath |-> resolved,
                                    type |-> type, refId |-> Null])
                /\ markerCounter' = markerCounter + 1
                /\ edges' = Append(edges, [importer |-> MainId, marker |-> MarkerOf(markerCounter)])
                /\ Return(BUILD_PREFIX \o MarkerOf(markerCounter))
           ELSE Return(resolved \o INLINE_QUERY) /\ UNCHANGED <<inlineRegistry, markerCounter, edges>>
    /\ UNCHANGED <<viteVars, inputVars, pc, html, warnings, result, matches, code, imports, counter,
                   acc, pos, modules, bundle, fileNames, cursor, contents>>

\* load(id) of the plugin object, and under Vite the load of
\* createViteHtmlHandlers: the bundler loads an id that resolveId returned.
\* A rejected promise ends the build.
Load ==
    /\ mode = "hooks" /\ pc = "resolve"
    /\ \E k \in 1..Len(calls) :
        LET id == calls[k].id
            filePath == Slice(id, 0, Len(id) - Len(INLINE_QUERY))
            Return(source) ==
                /\ returned' = source
                /\ modules' = modules \cup {[id |-> id, source |-> source]}
                /\ UNCHANGED <<pc, warnings>>
            Direct(content) ==
                IF content # Null THEN Return("export default " \o JsonStringify(content))
                ELSE IF framework = "vite"
                THEN /\ returned' = Thrown
                     /\ pc' = "aborted"
                     /\ UNCHANGED <<modules, warnings>>
                ELSE /\ returned' = "export default \"\""
                     /\ modules' = modules \cup {[id |-> id, source |-> returned']}
                     /\ warnings' = Append(warnings, [tag |-> "load", path |-> filePath])
                     /\ UNCHANGED pc
        IN /\ id # Null
           /\ ~Loaded(id)
           /\ IF framework = "vite" /\ StartsAt(id, 1, CSS_LOADER_PREFIX)
              THEN Return(rollupLoad(id))
              ELSE IF StartsAt(id, 1, BUILD_PREFIX) THEN Return(rollupLoad(id))
              ELSE IF EndsWith(id, INLINE_QUERY) THEN Direct(readFile(filePath))
              ELSE Return(Null)
    /\ UNCHANGED <<viteVars, inputVars, html, calls, result, matches, code, imports, counter,
                   acc, pos, inlineRegistry, markerCounter, edges, bundle, fileNames,
                   cursor, contents>>

NextHooks ==
    \/ ConfigResolved
    \/ ResolveId
    \/ Load

SpecHooks == InitHooks /\ [][NextHooks]_vars

\* C13: no hook ends with an error thrown to the surrounding build: a failing
\* file read ends in a fallback and the hook returns normally.
C13_NoHookThrows ==
    mode = "hooks" => returned # Thrown /\ pc # "aborted"

\* the calls of resolveId for a reference that ends in the inline query
InlineCalls == SelectSeq(calls, LAMBDA c : EndsWith(c.source, INLINE_QUERY))

\* C17: in one session every reference ending in the inline query is rewritten
\* the same way, all to marker modules or all to direct-content ids; a session
\* that rewrote a reference to a direct-content id, and every session of a
\* framework without an output hook, has minted no marker and has an empty
\* registry.
C17_ModeFixed ==
    mode = "hooks" =>
        /\ \/ \A k \in 1..Len(InlineCalls) : StartsAt(InlineCalls[k].id, 1, BUILD_PREFIX)
           \/ \A k \in 1..Len(InlineCalls) :
                  /\ ~StartsAt(InlineCalls[k].id, 1, BUILD_PREFIX)
                  /\ EndsWith(InlineCalls[k].id, INLINE_QUERY)
        /\ (\/ framework \in {"farm", "bun"}
            \/ \E k \in 1..Len(InlineCalls) : ~StartsAt(InlineCalls[k].id, 1, BUILD_PREFIX))
           => markerCounter = 0 /\ inlineRegistry = <<>>

\* a Vite dev session that resolved the script and the stylesheet reference
C17_Witness ==
    /\ mode = "hooks" /\ framework = "vite" /\ ~isBuild
    /\ Len(InlineCalls) = 2
    /\ InlineCalls[1].id = "/r/a.js?__inline_build"
    /\ InlineCalls[2].id = "/r/b.css?__inline_build"
    /\ inlineRegistry = <<>>

\* C18: in a marker session the n-th reference ending in the inline query
\* registered the marker numbered n-1 for its resolved path and was answered
\* with the build prefix followed by that marker; every loaded marker module
\* is `export default "<marker>"` for the marker of its id, which is a key of
\* the registry.
C18_MarkerDiscovery ==
    (/\ mode = "hooks"
     /\ \/ framework \in {"webpack", "rspack", "esbuild"}
        \/ framework = "vite" /\ isBuild) =>
        /\ Len(InlineCalls) = Len(inlineRegistry)
        /\ markerCounter = Len(inlineRegistry)
        /\ \A n \in 1..Len(InlineCalls) :
               /\ n <= Len(inlineRegistry)
               /\ inlineRegistry[n].marker = "__INLINE_BUILD_" \o ToString(n - 1) \o "__"
               /\ InlineCalls[n].id = BUILD_PREFIX \o inlineRegistry[n].marker
               /\ inlineRegistry[n].filePath
                  = (IF InlineCalls[n].source = "/a.js" \o INLINE_QUERY THEN "/r/a.js"
                     ELSE "/r/b.css")
               /\ inlineRegistry[n].type
                  = (IF inlineRegistry[n].filePath = "/r/b.css" THEN "css" ELSE "js")
        /\ \A m \in modules :
               StartsAt(m.id, 1, BUILD_PREFIX) =>
                   \E i \in 1..Len(inlineRegistry) :
                       /\ m.id = BUILD_PREFIX \o inlineRegistry[i].marker
                       /\ m.source = "export default \"" \o inlineRegistry[i].marker \o "\""

\* a webpack session: two references registered, the second marker module loaded
C18_Witness ==
    /\ mode = "hooks" /\ framework = "webpack"
    /\ markerCounter = 2
    /\ [id |-> BUILD_PREFIX \o "__INLINE_BUILD_1__",
        source |-> "export default \"__INLINE_BUILD_1__\""] \in modules

-----------------------------------------------------------------------------
(* The processAssets handler of webpack and rspack                         *)

\* a handler that falls back to the raw file under every bundler
fallbackToRawFileAlways == TRUE

\* options.fallbackToRawFile: false under webpack, true under rspack
fallbackToRawFile == framework = "rspack"

\* a freshly constructed plugin under webpack or rspack
InitWebpack == InitHooks /\ framework \in {"webpack", "rspack"}

\* the HTML page another plugin emits into the compilation, "" for none; the
\* second names a file the compilation has no asset for
WebpackPages ==
    {"",
     "<script inline src=\"/main.js\"></script>",
     "<script inline src=\"in.js\"></script>"}

\* the compilation reaches processAssets: two .js assets hold the marker
\* literals of the application, and there is an HTML page or none.
\* entryPlugin tells whether the compiler has an EntryPlugin to give, child
\* how the nested build of each entry will end: with an asset or with an
\* error. The nested build of an unreadable file ends with an error.
CompilationSeal ==
    /\ mode = "hooks" /\ pc = "resolve"
    /\ framework \in {"webpack", "rspack"}
    /\ \A i \in 1..Len(inlineRegistry) : Loaded(BUILD_PREFIX \o inlineRegistry[i].marker)
    /\ \E page \in WebpackPages, entryPlugin \in BOOLEAN,
          child \in [1..Len(inlineRegistry) -> {"built", "failed"}] :
        /\ \A i \in 1..Len(inlineRegistry) :
              /\ files[inlineRegistry[i].filePath] = Null => child[i] = "failed"
              /\ ~entryPlugin => child[i] = "failed"       \* no nested build is started
        /\ bundle' = AppChunks("split")
                      \o (IF page = "" THEN <<>>
                          ELSE <<Artifact("index.html", "asset", page, <<>>)>>)
        /\ backend' = [backend EXCEPT !.choice =
                          <<[layout |-> "split", page |-> page, entryPlugin |-> entryPlugin,
                             child |-> child]>>]
    /\ pc' = "finalize"
    /\ cursor' = 0
    /\ contents' = <<>>
    /\ UNCHANGED <<viteVars, mode, framework, isBuild, attr, files, pieces, htmlVars, jsxVars,
                   result, matches, inlineRegistry, markerCounter, edges, modules, fileNames>>

\* buildWithChildCompiler(marker, entry, ...) for the i-th entry: Null without
\* an EntryPlugin, Thrown when the promise of the nested build is rejected,
\* else the source of the first asset of the nested build
buildWithChildCompiler(i) ==
    LET entry == inlineRegistry[i]
        choice == backend.choice[1]
    IN IF ~choice.entryPlugin THEN Null
       ELSE IF choice.child[i] = "failed" THEN Thrown
       ELSE files[entry.filePath] \o (IF entry.type = "js" THEN ";" ELSE "\n")

\* the loop over Object.entries(assets) that replaces the marker in .js assets
ReplaceInAssets(b, marker, content) ==
    [i \in 1..Len(b) |->
        IF EndsWith(b[i].name, ".js") /\ Includes(b[i].text, marker)
        THEN [b[i] EXCEPT !.text = replaceMarker(b[i].text, marker, content)]
        ELSE b[i]]

\* one iteration of the loop of the processAssets callback over the registry
ProcessAssetsStep ==
    /\ mode = "hooks" /\ pc = "finalize"
    /\ cursor < Len(inlineRegistry)
    /\ LET entry == inlineRegistry[cursor + 1]
           Caught(built) ==
               IF built # Thrown THEN built
               ELSE IF fallbackToRawFile THEN readFile(entry.filePath)
               ELSE Null
           Replace(content) ==
               /\ bundle' = IF content = Null THEN bundle
                            ELSE ReplaceInAssets(bundle, entry.marker, content)
               /\ contents' = Append(contents, content)
       IN Replace(Caught(buildWithChildCompiler(cursor + 1)))
    /\ cursor' = cursor + 1
    /\ UNCHANGED <<viteVars, inputVars, htmlVars, jsxVars, pc, result, matches, inlineRegistry,
                   markerCounter, edges, modules, fileNames>>

\* the loop is over: the callback goes on with the .html assets
ProcessAssetsHtml ==
    /\ mode = "hooks" /\ pc = "finalize"
    /\ cursor = Len(inlineRegistry)
    /\ LET Inlined(r) ==
               /\ bundle' = r.bundle
               /\ warnings' = r.warnings
       IN Inlined(inlineHtmlAssets(bundle, 1, bundle, warnings))
    /\ pc' = "done"
    /\ UNCHANGED <<viteVars, inputVars, html, calls, jsxVars, result, matches, inlineRegistry,
                   markerCounter, edges, modules, fileNames, cursor, contents>>

NextWebpack ==
    \/ ResolveId
    \/ Load
    \/ CompilationSeal
    \/ ProcessAssetsStep
    \/ ProcessAssetsHtml

SpecWebpack == InitWebpack /\ [][NextWebpack]_vars

-----------------------------------------------------------------------------
(* A Vite build: transformIndexHtml, resolveId, load and generateBundle of  *)
(* createViteHtmlHandlers                                                  *)

\* the tags of index.html: the application's module script, marked and not,
\* a marked stylesheet and an unmarked one
ViteMain ==
    Tag("script", <<A("type", "module"), B("inline"), A("src", "/main.js")>>, "paired", "")
ViteMainPlain == Tag("script", <<A("type", "module"), A("src", "/main.js")>>, "paired", "")
LinkOther == Tag("link", <<A("rel", "stylesheet"), A("href", "c.css")>>, "selfclose", "")

VitePalette == {ViteMain, ViteMainPlain, LinkMarked, LinkOther, Para}

\* a plugin constructed for a Vite build, after configResolved({command:
\* 'build'}); index.html has not gone through transformIndexHtml yet
InitVite ==
    /\ mode = "build"
    /\ framework = "vite"
    /\ isBuild = TRUE
    /\ pc = "html"
    /\ attr = DefaultAttr
    /\ files \in Disks
    /\ pieces \in Documents(VitePalette)
    /\ html = RenderAll(pieces)
    /\ result = ""
    /\ matches = <<>>
    /\ warnings = <<>>
    /\ calls = <<>>
    /\ code = ""
    /\ imports = <<>>
    /\ counter = 0
    /\ acc = ""
    /\ pos = 0
    /\ returned = Null
    /\ BuildIdle

\* src.replace(/^\//, '')
StripSlash(src) == IF StartsAt(src, 1, "/") THEN SubSeq(src, 2, Len(src)) ELSE src

\* the script loop of the build branch of transformIndexHtml: the text and the
\* inlineScripts it ends with
RECURSIVE RecordScripts(_, _)
RecordScripts(acc0, ms) ==
    IF ms = <<>> THEN acc0
    ELSE LET Iteration(match, attrs) ==
                 IF ScriptSkipped(attrs) THEN acc0
                 ELSE [text |-> Splice(acc0.text, match,
                                       "<script" \o formatAttributes(attrs, {attr}) \o ">"
                                       \o match.m2 \o "</script>"),
                       names |-> acc0.names
                                 \cup {PathResolve(Root, StripSlash(AttrGet(attrs, "src")))}]
         IN RecordScripts(Iteration(Head(ms), parseAttributes(Head(ms).m1)), Tail(ms))

\* the link loop of the build branch, likewise with inlineStyles
RECURSIVE RecordLinks(_, _)
RecordLinks(acc0, ms) ==
    IF ms = <<>> THEN acc0
    ELSE LET Iteration(match, attrs) ==
                 IF LinkSkipped(attrs) THEN acc0
                 ELSE [text |-> Splice(acc0.text, match,
                                       "<link" \o formatAttributes(attrs, {attr}) \o " />"),
                       names |-> acc0.names
                                 \cup {PathResolve(Root, StripSlash(AttrGet(attrs, "href")))}]
         IN RecordLinks(Iteration(Head(ms), parseAttributes(Head(ms).m1)), Tail(ms))

\* transformIndexHtml.handler(html, ctx) of a build (no ctx.server): the marked
\* tags are recorded and lose the trigger attribute
TransformIndexHtml ==
    /\ mode = "build" /\ framework = "vite" /\ pc = "html"
    /\ LET Links(scripts) ==
               LET Return(links) ==
                       /\ inlineScripts' = scripts.names
                       /\ inlineStyles' = links.names
                       /\ result' = IF scripts.names = {} /\ links.names = {} THEN html
                                    ELSE links.text
               IN Return(RecordLinks([text |-> scripts.text, names |-> inlineStyles],
                                     Reverse(collectMatches(scripts.text, "link"))))
       IN Links(RecordScripts([text |-> html, names |-> inlineScripts],
                              Reverse(collectMatches(html, "script"))))
    /\ pc' = "resolve"
    /\ UNCHANGED <<inputVars, buildVars, html, warnings, calls, jsxVars, matches>>

\* what Vite makes of a tag of the page it was returned: a module script
\* becomes a reference to its chunk, a stylesheet link to its style asset
ViteTag(t) ==
    IF t.kind = "script"
    THEN "<script type=\"module\" crossorigin src=\"/assets/main.js\"></script>"
    ELSE IF t.kind = "link"
    THEN "<link rel=\"stylesheet\" crossorigin href=\"/assets/" \o PVal(t, "href") \o "\">"
    ELSE Render(t)

RECURSIVE VitePage(_)
VitePage(ts) == IF ts = <<>> THEN "" ELSE ViteTag(Head(ts)) \o VitePage(Tail(ts))

\* Vite generates the output: the chunk of the application with the marker
\* literals, the style assets of the page, the artifacts of the emitted
\* entries (built tells which of them are part of the output; loader chunks
\* carry viteMetadata), and index.html
ViteGenerate ==
    /\ mode = "build" /\ framework = "vite" /\ pc = "resolve"
    /\ \A id \in LoadableIds : Loaded(id)
    /\ \E built \in [1..Len(inlineRegistry) -> BOOLEAN] :
        /\ \A i \in 1..Len(inlineRegistry) :
              /\ built[i] => files[inlineRegistry[i].filePath] # Null
              /\ ~FirstOf(i) =>
                     built[i] = built[CHOOSE j \in 1..i :
                                        /\ FirstOf(j)
                                        /\ inlineRegistry[j].filePath = inlineRegistry[i].filePath]
        /\ bundle' =
              <<[name |-> "assets/main.js", type |-> "chunk",
                 text |-> DeclsFrom(MainId, 1) \o "run()", css |-> <<>>, modules |-> {MainId}]>>
              \o (IF \E k \in 1..Len(pieces) : pieces[k] = LinkMarked
                  THEN <<Artifact("assets/a.css", "asset", ".a{}\n", <<>>)>> ELSE <<>>)
              \o (IF \E k \in 1..Len(pieces) : pieces[k] = LinkOther
                  THEN <<Artifact("assets/c.css", "asset", ".c{}\n", <<>>)>> ELSE <<>>)
              \o EntryArtifacts(1, built, TRUE)
              \o <<Artifact("index.html", "asset", VitePage(pieces), <<>>)>>
        /\ fileNames' =
              [r \in {inlineRegistry[i].refId : i \in 1..Len(inlineRegistry)} |->
                  LET i == CHOOSE j \in 1..Len(inlineRegistry) : inlineRegistry[j].refId = r
                  IN IF ~built[i] THEN Null
                     ELSE IF inlineRegistry[i].type = "js" THEN EntryChunkName
                     ELSE WrapperName(i)]
        /\ backend' = [backend EXCEPT !.choice =
                          <<[layout |-> "once", meta |-> TRUE, page |-> VitePage(pieces),
                             built |-> {inlineRegistry[i].filePath :
                                           i \in {j \in 1..Len(inlineRegistry) : built[j]}}]>>]
    /\ pc' = "finalize"
    /\ cursor' = 0
    /\ contents' = <<>>
    /\ UNCHANGED <<viteVars, mode, framework, isBuild, attr, files, pieces, htmlVars, jsxVars,
                   result, matches, inlineRegistry, markerCounter, edges, modules>>

\* the script loop of inlineBundledContent over scriptMatches.reverse()
RECURSIVE BundledScripts(_, _, _, _)
BundledScripts(text, ms, b, names) ==
    IF ms = <<>> THEN text
    ELSE LET Iteration(match, attrs) ==
                 LET Inline(normalized) ==
                         IF normalized \notin names THEN text
                         ELSE IF BundleIndex(b, normalized) = 0 THEN text
                         ELSE IF b[BundleIndex(b, normalized)].type # "chunk" THEN text
                         ELSE Splice(text, match,
                                     "<script" \o formatAttributes(attrs, {"src", "crossorigin"})
                                     \o ">" \o EscapeScript(b[BundleIndex(b, normalized)].text)
                                     \o "</script>")
                 IN IF ~AttrHas(attrs, "src") THEN text
                    ELSE Inline(StripSlash(AttrGet(attrs, "src")))
         IN BundledScripts(Iteration(Head(ms), parseAttributes(Head(ms).m1)), Tail(ms), b, names)

\* the link loop of inlineBundledContent over linkMatches.reverse()
RECURSIVE BundledLinks(_, _, _, _)
BundledLinks(text, ms, b, names) ==
    IF ms = <<>> THEN text
    ELSE LET Iteration(match, attrs) ==
                 LET Inline(normalized) ==
                         IF normalized \notin names THEN text
                         ELSE IF BundleIndex(b, normalized) = 0 THEN text
                         ELSE IF b[BundleIndex(b, normalized)].type # "asset" THEN text
                         ELSE Splice(text, match,
                                     "<style"
                                     \o formatAttributes(attrs, {"rel", "href", "crossorigin"})
                                     \o ">" \o b[BundleIndex(b, normalized)].text \o "</style>")
                 IN IF ~AttrHas(attrs, "rel") \/ ~AttrHas(attrs, "href") THEN text
                    ELSE IF AttrGet(attrs, "rel") # "stylesheet" THEN text
                    ELSE Inline(StripSlash(AttrGet(attrs, "href")))
         IN BundledLinks(Iteration(Head(ms), parseAttributes(Head(ms).m1)), Tail(ms), b, names)

\* inlineBundledContent(bundle, html)
inlineBundledContent(b, text) ==
    LET chunkNamesToInline ==
            {b[k].name : k \in {j \in 1..Len(b) :
                                   /\ b[j].type = "chunk"
                                   /\ "modules" \in DOMAIN b[j]
                                   /\ b[j].modules \cap inlineScripts # {}}}
        assetNamesToInline ==
            {b[k].name : k \in {j \in 1..Len(b) :
                                   /\ b[j].type = "asset"
                                   /\ inlineStyles # {}
                                   /\ EndsWith(b[j].name, ".css")}}
        Links(scripts) ==
            BundledLinks(scripts, Reverse(collectMatches(scripts, "link")), b,
                         assetNamesToInline)
    IN Links(BundledScripts(text, Reverse(collectMatches(text, "script")), b,
                            chunkNamesToInline))

\* the loop of replaceInlineMarkersInBundle is over: generateBundle goes on
\* with the .html assets of the bundle
ViteGenerateBundle ==
    /\ mode = "build" /\ framework = "vite" /\ pc = "finalize"
    /\ cursor = Len(inlineRegistry)
    /\ bundle' = [k \in 1..Len(bundle) |->
                     IF EndsWith(bundle[k].name, ".html") /\ bundle[k].type = "asset"
                     THEN [bundle[k] EXCEPT !.text = inlineBundledContent(bundle, @)]
                     ELSE bundle[k]]
    /\ pc' = "done"
    /\ UNCHANGED <<viteVars, inputVars, htmlVars, jsxVars, result, matches, inlineRegistry,
                   markerCounter, edges, modules, fileNames, cursor, contents>>

NextVite ==
    \/ TransformIndexHtml
    \/ RollupResolveId
    \/ RollupLoad
    \/ ViteGenerate
    \/ ReplaceMarkersStep
    \/ ViteGenerateBundle

SpecVite == InitVite /\ [][NextVite]_vars

-----------------------------------------------------------------------------
(* The output hooks of the three kinds of bundler side by side             *)

InitOutput == InitBuild \/ InitWebpack \/ InitVite

NextOutput == NextBuild \/ NextWebpack \/ NextVite

SpecOutput == InitOutput /\ [][NextOutput]_vars

\* C22: a step that changes the text of a markup artifact is taken only when
\* the marker loop has handled every entry of the registry; it changes no
\* other artifact and ends the hook, so no marker is replaced after it; and
\* where it replaced the script tag that referred to the application's chunk,
\* the element it wrote holds the (escaped) text that chunk has in the output.
C22_MarkupAfterMarkers ==
    [][\A k \in 1..Len(bundle) :
          (/\ Len(bundle') = Len(bundle)
           /\ EndsWith(bundle[k].name, ".html")
           /\ bundle'[k].text # bundle[k].text) =>
              /\ cursor = Len(inlineRegistry)
              /\ Len(contents) = Len(inlineRegistry)
              /\ pc' = "done"
              /\ \A j \in 1..Len(bundle) :
                     ~EndsWith(bundle[j].name, ".html") =>
                         /\ bundle'[j] = bundle[j]
                         /\ (/\ EndsWith(bundle[j].name, "main.js")
                             /\ Includes(bundle[k].text, "src=\"/" \o bundle[j].name \o "\"")
                             /\ ~Includes(bundle'[k].text, "src=\"/" \o bundle[j].name \o "\"")) =>
                                Includes(bundle'[k].text,
                                         ">" \o EscapeScript(bundle'[j].text) \o "</script>")]_vars

\* a Vite build: the chunk of the application was inlined into index.html
\* with the content of the script in place of its marker
C22_Witness ==
    /\ mode = "build" /\ framework = "vite" /\ pc = "done"
    /\ Len(inlineRegistry) = 1
    /\ contents = <<"say(\"hi\");">>
    /\ \E k \in 1..Len(bundle) :
           /\ bundle[k].name = "index.html"
           /\ Includes(bundle[k].text,
                       "<script type=\"module\">v1=\"say(\\\"hi\\\");\";run()</script>")

-----------------------------------------------------------------------------
(* The artifact a marked tag of an emitted page is resolved to             *)
(***************************************************************************)

\* the marked script tags of a page, with their references
MarkedScripts(text) ==
    LET ms == collectMatches(text, "script")
    IN {[tag |-> ms[i].m0, src |-> AttrGet(parseAttributes(ms[i].m1), "src")] :
            i \in {n \in 1..Len(ms) : ~ScriptSkipped(parseAttributes(ms[n].m1))}}

\* the artifacts of b whose produced file name is name
Named(b, name) == {j \in 1..Len(b) : b[j].name = name}

\* C23: in the markup pass over the emitted pages (Rollup, Rolldown, webpack,
\* rspack), a marked script tag with reference R is replaced by a script
\* element holding the text of the artifact whose file name is R without its
\* leading / or ./, and a tag whose normalized reference is the file name of no
\* artifact is still in the page after the pass.
C23_ByProducedFilename ==
    [][\A k \in 1..Len(bundle) :
          (/\ framework \in {"rollup", "rolldown", "webpack", "rspack"}
           /\ pc = "finalize" /\ pc' = "done"
           /\ Len(bundle') = Len(bundle)
           /\ EndsWith(bundle[k].name, ".html")) =>
              \A t \in MarkedScripts(bundle[k].text) :
                  /\ Named(bundle, NormalizeSrc(t.src)) = {} =>
                         Includes(bundle'[k].text, t.tag)
                  /\ \A j \in Named(bundle, NormalizeSrc(t.src)) :
                         Includes(bundle'[k].text,
                                  ">" \o EscapeScript(bundle[j].text) \o "</script>")]_vars

(***************************************************************************)
(* The registry over the hook calls of a session                           *)
(***************************************************************************)

\* C24: over the hook calls of a session, a step changes the registry only by
\* appending one entry under a key no entry has yet, the entries already there
\* keep their path, kind and output handle (a Rollup entry has its handle from
\* the step that created it), and once finalization has begun the registry
\* stays as it is and no discovery step follows.
C24_RegistryDiscipline ==
    [][/\ Len(inlineRegistry') \in {Len(inlineRegistry), Len(inlineRegistry) + 1}
       /\ SubSeq(inlineRegistry', 1, Len(inlineRegistry)) = inlineRegistry
       /\ Len(inlineRegistry') = Len(inlineRegistry) + 1 =>
              /\ pc = "resolve" /\ pc' = "resolve"
              /\ \A i \in 1..Len(inlineRegistry) :
                     inlineRegistry[i].marker # inlineRegistry'[Len(inlineRegistry')].marker
              /\ mode = "build" => "refId" \in DOMAIN inlineRegistry'[Len(inlineRegistry')]
       /\ pc \in {"finalize", "done"} =>
              /\ inlineRegistry' = inlineRegistry
              /\ pc' \in {"finalize", "done"}]_vars

\* a Rollup session that discovered two references and finalized both
C24_Witness ==
    /\ mode = "build" /\ framework = "rollup" /\ pc = "done"
    /\ Len(inlineRegistry) = 2 /\ cursor = 2
    /\ inlineRegistry[1].marker = MarkerOf(0) /\ inlineRegistry[2].marker = MarkerOf(1)
    /\ inlineRegistry[1].refId # inlineRegistry[2].refId

(***************************************************************************)
(* The offsets of the matches of a pass while the pass splices             *)
(***************************************************************************)

\* transformHtml and the HTML passes of a Vite build, side by side
InitMarkup == InitHtml \/ InitVite
NextMarkup == NextHtml \/ NextVite
SpecMarkup == InitMarkup /\ [][NextMarkup]_vars

\* the text at the offset of the match is the matched tag, and the text before
\* the offset is that of text0, the text the matches were collected on
SpliceValid(text0, text, match) ==
    /\ Slice(text, match.index, match.index + Len(match.m0)) = match.m0
    /\ Slice(text, 0, match.index) = Slice(text0, 0, match.index)

\* SpliceValid at every iteration of the loops of transformIndexHtml and of
\* inlineBundledContent over the matches ms, the text being acc0.text or text
RECURSIVE RecordScriptsValid(_, _, _)
RecordScriptsValid(text0, acc0, ms) ==
    \/ ms = <<>>
    \/ /\ SpliceValid(text0, acc0.text, Head(ms))
       /\ RecordScriptsValid(text0, RecordScripts(acc0, <<Head(ms)>>), Tail(ms))

RECURSIVE RecordLinksValid(_, _, _)
RecordLinksValid(text0, acc0, ms) ==
    \/ ms = <<>>
    \/ /\ SpliceValid(text0, acc0.text, Head(ms))
       /\ RecordLinksValid(text0, RecordLinks(acc0, <<Head(ms)>>), Tail(ms))

RECURSIVE BundledScriptsValid(_, _, _, _, _)
BundledScriptsValid(text0, text, ms, b, names) ==
    \/ ms = <<>>
    \/ /\ SpliceValid(text0, text, Head(ms))
       /\ BundledScriptsValid(text0, BundledScripts(text, <<Head(ms)>>, b, names), Tail(ms),
                              b, names)

RECURSIVE BundledLinksValid(_, _, _, _, _)
BundledLinksValid(text0, text, ms, b, names) ==
    \/ ms = <<>>
    \/ /\ SpliceValid(text0, text, Head(ms))
       /\ BundledLinksValid(text0, BundledLinks(text, <<Head(ms)>>, b, names), Tail(ms),
                            b, names)

\* the two passes of transformIndexHtml over the page text
RecordValid(text) ==
    LET Start(t) == [text |-> t, names |-> {}]
        Links(scripts) ==
            RecordLinksValid(scripts.text, scripts,
                             Reverse(collectMatches(scripts.text, "link")))
    IN /\ RecordScriptsValid(text, Start(text), Reverse(collectMatches(text, "script")))
       /\ Links(RecordScripts(Start(text), Reverse(collectMatches(text, "script"))))

\* the two passes of inlineBundledContent over the text of an .html asset of b,
\* every chunk and every asset of b taken to be one to inline
BundledValid(b, text) ==
    LET chunkNames == {b[k].name : k \in {j \in 1..Len(b) : b[j].type = "chunk"}}
        assetNames == {b[k].name : k \in {j \in 1..Len(b) : b[j].type = "asset"}}
        Links(scripts) ==
            BundledLinksValid(scripts, scripts, Reverse(collectMatches(scripts, "link")),
                              b, assetNames)
    IN /\ BundledScriptsValid(text, text, Reverse(collectMatches(text, "script")),
                              b, chunkNames)
       /\ Links(BundledScripts(text, Reverse(collectMatches(text, "script")), b, chunkNames))

\* C25: in a pass of transformHtml the matches still to be applied lie in the
\* document in descending order without overlap, the text at the offset of
\* each is the matched tag, in the script pass the text up to the end of each
\* is that of the input, and an iteration changes nothing before the offset
\* of its match; in the passes of a Vite build (transformIndexHtml and
\* inlineBundledContent) the text at the offset of the match of each iteration
\* is the matched tag and the text before it is the text the matches were
\* collected on.
C25_SpliceValidity ==
    /\ []((mode = "html" /\ pc \in {"scripts", "links"}) =>
            /\ \A i \in 1..Len(matches) :
                   /\ Slice(result, matches[i].index, matches[i].index + Len(matches[i].m0))
                          = matches[i].m0
                   /\ pc = "scripts" => SpliceValid(html, result, matches[i])
            /\ \A i \in 1..(Len(matches) - 1) :
                   matches[i + 1].index + Len(matches[i + 1].m0) <= matches[i].index)
    /\ []((mode = "build" /\ framework = "vite" /\ pc = "html") => RecordValid(html))
    /\ []((mode = "build" /\ framework = "vite" /\ pc = "finalize") =>
            \A k \in 1..Len(bundle) :
                EndsWith(bundle[k].name, ".html") => BundledValid(bundle, bundle[k].text))
    /\ [][(mode = "html" /\ pc \in {"scripts", "links"} /\ matches # <<>>
           /\ matches' = Tail(matches)) =>
              Slice(result', 0, Head(matches).index) = Slice(result, 0, Head(matches).index)]_vars

\* transformHtml has spliced the last of two marked tags and the first, whose
\* offset was collected before, is still to be applied
C25_Witness ==
    /\ mode = "html" /\ pc = "scripts"
    /\ pieces = <<ScriptMarked, ScriptMarked>>
    /\ Len(matches) = 1 /\ matches[1].index = 0
    /\ result # html /\ Len(result) # Len(html)

(***************************************************************************)
(* What a replaced marker literal becomes                                  *)
(***************************************************************************)

\* text with every occurrence of the literal lit from position from on
\* replaced by the text by, taken as it is
RECURSIVE ReplaceLiteral(_, _, _, _)
ReplaceLiteral(text, lit, by, from) ==
    LET i == IndexOf(text, lit, from)
    IN IF i = 0 THEN SubSeq(text, from, Len(text))
       ELSE SubSeq(text, from, i - 1) \o by \o ReplaceLiteral(text, lit, by, i + Len(lit))

\* C26: a finalization step that obtained content C for a marker leaves every
\* artifact of the output with its text in which each quoted literal of the
\* marker has become exactly the JSON string literal of C.
C26_Verbatim ==
    [][(/\ pc = "finalize" /\ cursor' = cursor + 1
        /\ Len(contents') = cursor'
        /\ contents'[cursor'] # Null) =>
           \A k \in 1..Len(bundle') :
               \E j \in 1..Len(bundle) :
                   /\ bundle[j].name = bundle'[k].name
                   /\ bundle'[k].text =
                          ReplaceLiteral(bundle[j].text,
                                         "\"" \o inlineRegistry[cursor'].marker \o "\"",
                                         JsonStringify(contents'[cursor']), 1)]_vars

(***************************************************************************)
(* Two references to one file                                              *)
(***************************************************************************)

\* C27: when finalization is over, two entries of the registry that have the
\* same path and whose handles the bundler maps to the same emitted artifact
\* were given the same content.
C27_SamePathSameContent ==
    BuildDone =>
        \A i, j \in 1..Len(inlineRegistry) :
            (/\ inlineRegistry[i].filePath = inlineRegistry[j].filePath
             /\ fileNames[inlineRegistry[i].refId] # Null
             /\ fileNames[inlineRegistry[i].refId] = fileNames[inlineRegistry[j].refId]) =>
                contents[i] = contents[j]

(***************************************************************************)
(* What finalization removes from the output and what it leaves alone      *)
(***************************************************************************)

\* a Rollup session whose output also holds the style asset of another
\* stylesheet
NextFrame ==
    \/ RollupResolveId
    \/ RollupLoad
    \/ BundlerGenerateStyled
    \/ ReplaceMarkersStep
    \/ GenerateBundleHtml

SpecFrame == InitBuild /\ [][NextFrame]_vars

\* the names of the artifacts of b
NamesOf(b) == {b[k].name : k \in 1..Len(b)}

\* C28: an iteration of replaceInlineMarkersInBundle removes from the output
\* no artifact but the one emitted for the handle of its entry and, for a
\* stylesheet entry, the style asset made from the entry's own file; and an
\* artifact that holds no marker token and is not removed is the same after
\* the iteration.
C28_FinalizationFrame ==
    [][(mode = "build" /\ pc = "finalize" /\ cursor' = cursor + 1) =>
           LET entry == inlineRegistry[cursor + 1]
           IN \A k \in 1..Len(bundle) :
                  /\ bundle[k].name \notin NamesOf(bundle') =>
                         \/ bundle[k].name = fileNames[entry.refId]
                         \/ /\ entry.type = "css"
                            /\ bundle[k].name = CssAssetName
                  /\ (/\ bundle[k].name \in NamesOf(bundle')
                      /\ ~Includes(bundle[k].text, "__INLINE_BUILD_")) =>
                         bundle'[BundleIndex(bundle', bundle[k].name)] = bundle[k]]_vars

(***************************************************************************)
(* The tags of a Vite page that were not marked                            *)
(***************************************************************************)

\* C29: when a Vite build is over, every script tag and stylesheet link of
\* the source page that did not carry the trigger attribute is in the final
\* page as the external reference Vite made of it.
C29_OnlyMarkedInlined ==
    (mode = "build" /\ framework = "vite" /\ pc = "done") =>
        \A i \in 1..Len(pieces) :
            (pieces[i].kind \in {"script", "link"} /\ ~PHas(pieces[i], attr)) =>
                \A k \in 1..Len(bundle) :
                    EndsWith(bundle[k].name, ".html") =>
                        Includes(bundle[k].text, ViteTag(pieces[i]))

(***************************************************************************)
(* The stylesheet-link pass of transformHtml and what the script pass      *)
(* spliced in                                                              *)
(***************************************************************************)

\* C30: when transformHtml returns, the stylesheet-link pass has asked the
\* resolver only for link tags of the input document, and the body of the
\* script element that stands in the place of a marked script tag is the
\* resolved content with its closing-script sequences escaped, whatever the
\* content holds.
C30_PassesIndependent ==
    HtmlDone =>
        /\ \A i \in 1..Len(calls) :
               StartsAt(calls[i].tag, 1, "<link") =>
                   \E k \in 1..Len(pieces) :
                       pieces[k].kind = "link" /\ Render(pieces[k]) = calls[i].tag
        /\ \A k \in 1..Len(pieces) :
               (pieces[k].kind = "script" /\ Resolvable(pieces[k])) =>
                   BodyOf(k) = Neutralized(files[Ref(pieces[k])])

---------------------------------------------------------------------------
(* Two sessions on the same input, one after the other                     *)

\* the references of the session in the order resolveId was given them: the
\* importer and the resolved path of each
References ==
    [k \in 1..Len(edges) |->
        [importer |-> edges[k].importer,
         filePath |-> inlineRegistry[RegistryIndex(edges[k].marker)].filePath]]

\* the second session is given what the first was given: its references are
\* among those of the first, and once the bundler has generated the output
\* they are the same references and the bundler has chosen as before
SameInput ==
    backend.first # <<>> =>
        LET first == backend.first[1]
            N(refs, r) == Cardinality({k \in 1..Len(refs) : refs[k] = r})
        IN /\ \A k \in 1..Len(References) :
                  N(References, References[k]) <= N(first.references, References[k])
           /\ backend.choice # <<>> =>
                  /\ Len(References) = Len(first.references)
                  /\ backend.choice = first.choice

\* the plugin is constructed again for a second build: a fresh counter and an
\* empty registry; what the first session was given and ended with is kept
FreshSession ==
    /\ mode = "build" /\ pc = "done"
    /\ backend.first = <<>>
    /\ backend' = [choice |-> <<>>,
                   first |-> <<[references |-> References, choice |-> backend.choice,
                                bundle |-> bundle]>>]
    /\ inlineRegistry' = <<>>
    /\ markerCounter' = 0
    /\ edges' = <<>>
    /\ modules' = {}
    /\ bundle' = <<>>
    /\ fileNames' = <<>>
    /\ cursor' = 0
    /\ contents' = <<>>
    /\ warnings' = <<>>
    /\ returned' = Null
    /\ pc' = "resolve"
    /\ UNCHANGED <<viteVars, mode, framework, isBuild, attr, files, pieces, html, calls, result,
                   matches, code, imports, counter, acc, pos>>

NextTwice ==
    \/ RollupResolveId /\ SameInput'
    \/ RollupLoad
    \/ BundlerGenerate /\ SameInput'
    \/ ReplaceMarkersStep
    \/ GenerateBundleHtml
    \/ FreshSession

SpecTwice == InitBuild /\ [][NextTwice]_vars

\* C16: two freshly constructed sessions given the same references, the same
\* files and the same choices of the bundler end with the same set of
\* artifacts, in whatever order the references were given to resolveId.
C16_Deterministic ==
    (BuildDone /\ backend.first # <<>>) =>
        {bundle[i] : i \in 1..Len(bundle)}
        = {backend.first[1].bundle[i] : i \in 1..Len(backend.first[1].bundle)}

-----------------------------------------------------------------------------
(* parseAttributes as a function of the attribute fragment                 *)

MaxAttrs == 4

\* the tokens a fragment is written from: name, name="value", name='value'
\* and name=bareValue
AttrTokens ==
    {B("a"), A("b", "c"), [A("d", "e") EXCEPT !.q = "'"], [A("f", "g") EXCEPT !.q = ""],
     A("a", "x y"), [A("b", "say \"hi\"") EXCEPT !.q = "'"], A("data-x", ""),
     A("__proto__", "x")}

\* pieces holds the tokens, html the fragment: each token after one space
InitParse ==
    /\ mode = "parse"
    /\ framework = Null
    /\ isBuild = FALSE
    /\ pc = "start"
    /\ attr = DefaultAttr
    /\ files = <<>>
    /\ pieces \in UNION {[1..n -> AttrTokens] : n \in 0..MaxAttrs}
    /\ html = RenderAttrs(pieces)
    /\ result = ""
    /\ matches = <<>>
    /\ warnings = <<>>
    /\ calls = <<>>
    /\ code = ""
    /\ imports = <<>>
    /\ counter = 0
    /\ acc = ""
    /\ pos = 0
    /\ returned = Null
    /\ BuildIdle

\* parseAttributes(attrString): called once, or again on the same fragment
ParseAttributes ==
    /\ mode = "parse"
    /\ counter < 2
    /\ returned' = parseAttributes(html)
    /\ calls' = Append(calls, returned')
    /\ counter' = counter + 1
    /\ pc' = "done"
    /\ UNCHANGED <<viteVars, inputVars, buildVars, html, warnings, result, matches, code, imports,
                   acc, pos>>

SpecParse == InitParse /\ [][ParseAttributes]_vars

\* C15: the map returned for a fragment of whitespace-separated tokens holds
\* exactly the names of the tokens, each name with the value of its (last)
\* token, quotes removed, and a bare name with the empty string; the fragment
\* a b="c" d='e' f=g yields {a:"", b:"c", d:"e", f:"g"}; a second call on the
\* same fragment returns the same map.
C15_ParsesTokens ==
    (mode = "parse" /\ pc = "done") =>
        /\ \A k \in 1..Len(pieces) :
               (\A j \in (k + 1)..Len(pieces) : pieces[j].key # pieces[k].key) =>
                   \E i \in 1..Len(returned) :
                       returned[i] = [key |-> pieces[k].key, value |-> pieces[k].value]
        /\ \A i \in 1..Len(returned) :
               /\ \E k \in 1..Len(pieces) : pieces[k].key = returned[i].key
               /\ \A j \in 1..Len(returned) : returned[j].key = returned[i].key => j = i
        /\ html = " a b=\"c\" d='e' f=g" =>
               returned = <<[key |-> "a", value |-> ""], [key |-> "b", value |-> "c"],
                            [key |-> "d", value |-> "e"], [key |-> "f", value |-> "g"]>>
        /\ \A i \in 1..Len(calls) : calls[i] = returned

====
